---------------------------- MODULE Spec2Model ----------------------------
(***************************************************************************)
(* Verification model of the Cryptography-Projects-2025-7B repository.     *)
(* The repository holds independent programs; each gets its own group of   *)
(* variables and its own specification:                                    *)
(*   SpecPHC     Poly-Hill cipher instance (poly_hill_cipher.py)            *)
(*   SpecStego   Stego-2FA registration and login wizards (main.py)         *)
(*   SpecStore   two registrations inside save_user_profile at once         *)
(*   SpecDH      Diffie-Hellman demo web API (app/routes.py)                *)
(*   SpecHybrid  Caesar + Hill hybrid cipher (cypher.py)                    *)
(*   SpecBabel   Tower of Babel block obfuscation (crypto_utils.py)         *)
(*   SpecCrack   Crack Time Estimator functions (app.py)                    *)
(*   SpecTower   Tower of Babel web application (towerofbabel2/app.py)      *)
(*   SpecAvalanche  PHCSecurityUtils.avalanche_test on a cipher instance    *)
(*   SpecSecureQR   SecureQR /decrypt endpoint (SecureQR/app.py)            *)
(*   SpecIC      PHCSecurityUtils.calculate_index_of_coincidence            *)
(*   SpecLater   deobfuscate_ciphertext_blocks with arguments of any origin *)
(* A specification leaves the variables of the other programs untouched.   *)
(*                                                                         *)
(* Conventions                                                             *)
(*   - a Python str / bytes value is a sequence of character codes         *)
(*     (ord values); only ASCII is modelled                                *)
(*   - Optional[T] is a sequence of length 0 (None) or 1 (the value)       *)
(***************************************************************************)
EXTENDS Integers, Sequences, FiniteSets, TLC

VARIABLES
    \* ---- PolyHillCipher instance (poly_hill_cipher.py:33-39) ----
    polynomial_coeffs,  \* Optional list of coefficients
    hill_matrix,        \* Optional n x n matrix
    hill_matrix_inv,    \* Optional n x n matrix
    poly_lookup,        \* Optional dict x -> P(x)
    inverse_lookup,     \* Optional dict P(x) -> x
    phc_text,           \* the text the caller passes to encrypt
    phc_call,           \* the last call on the instance and how it ended
    phc_enc,            \* Optional [pt, ct]: last returned encryption under the present key
    phc_key_calls,      \* how the key-setting calls made so far ended
    \* ---- Stego-2FA desktop application (1OX22CS116-2FA-Project) ----
    user_db,            \* user_data/user_data.json: username -> stored profile data
    files,              \* image files on disk: path -> Optional hidden payload
    dialog,             \* which modal dialog MainWindow has open
    reg,                \* the RegistrationWizard object
    login,              \* the LoginWizard object
    proc,               \* processes inside save_user_profile (concurrent registrations)
    \* ---- Diffie-Hellman demo web API (app/routes.py) ----
    dh_request,         \* the request a client posts
    dh_response,        \* the answer it got
    \* ---- Caesar + Hill hybrid cipher (cypher.py) ----
    hybrid,             \* message, shift and the results of hybrid_encrypt / hybrid_decrypt
    \* ---- Tower of Babel obfuscation layer (towerofbabel2/crypto_utils.py) ----
    babel,              \* ciphertext, digests and the results of obfuscate / deobfuscate
    \* ---- Crack Time Estimator (Crack Time Estimator-1OX22CS071,1OX22CS094/app.py) ----
    crack,              \* arguments and results of estimate_entropy_bits / format_seconds
    \* ---- Tower of Babel web application (towerofbabel2/app.py) ----
    tower,              \* the CA, the users, the request to '/' and the rendered page
    \* ---- SecureQR web application (SecureQR  (1OX22CS077,1OX22CS119)/app.py) ----
    secureqr,           \* the upload posted to /decrypt and the answer it got
    \* ---- PHCSecurityUtils statistics (phc_security_utils.py) ----
    ic                  \* the text given to calculate_index_of_coincidence and its result

phcVars == <<polynomial_coeffs, hill_matrix, hill_matrix_inv, poly_lookup,
             inverse_lookup, phc_text, phc_call, phc_enc, phc_key_calls>>

stegoVars == <<user_db, files, dialog, reg, login>>

dhVars == <<dh_request, dh_response>>

vars == <<phcVars, stegoVars, proc, dhVars, hybrid, babel, crack, tower, secureqr, ic>>

\* what the actions of one program leave alone: the other programs' variables
otherThanPHC == <<stegoVars, proc, dhVars, hybrid, babel, crack, tower, secureqr, ic>>
otherThanStego == <<phcVars, proc, dhVars, hybrid, babel, crack, tower, secureqr, ic>>
otherThanStore == <<phcVars, files, dialog, reg, login, dhVars, hybrid, babel, crack, tower, secureqr, ic>>
otherThanDH == <<phcVars, stegoVars, proc, hybrid, babel, crack, tower, secureqr, ic>>
otherThanHybrid == <<phcVars, stegoVars, proc, dhVars, babel, crack, tower, secureqr, ic>>
otherThanBabel == <<phcVars, stegoVars, proc, dhVars, hybrid, crack, tower, secureqr, ic>>
otherThanCrack == <<phcVars, stegoVars, proc, dhVars, hybrid, babel, tower, secureqr, ic>>
otherThanTower == <<phcVars, stegoVars, proc, dhVars, hybrid, babel, crack, secureqr, ic>>
otherThanSecureQR == <<phcVars, stegoVars, proc, dhVars, hybrid, babel, crack, tower, ic>>
otherThanIC == <<phcVars, stegoVars, proc, dhVars, hybrid, babel, crack, tower, secureqr>>

-----------------------------------------------------------------------------
(* Generic helpers                                                         *)

None == <<>>
Some(v) == <<v>>
IsNone(o) == o = <<>>
Val(o) == o[1]

Abs(x) == IF x < 0 THEN -x ELSE x
Sgn(x) == IF x < 0 THEN -1 ELSE IF x > 0 THEN 1 ELSE 0

RECURSIVE Gcd(_, _)
Gcd(a, b) == IF b = 0 THEN Abs(a) ELSE Gcd(b, a % b)

\* Python's a % m for m > 0 (result in 0..m-1 whatever the sign of a)
PyMod(a, m) == ((a % m) + m) % m

RECURSIVE IPow(_, _)
IPow(x, e) == IF e = 0 THEN 1 ELSE x * IPow(x, e - 1)

\* Bitwise exclusive or of two naturals (Python's ^ on non-negative ints)
RECURSIVE Xor(_, _)
Xor(a, b) ==
    IF a = 0 THEN b
    ELSE IF b = 0 THEN a
    ELSE (((a % 2) + (b % 2)) % 2) + 2 * Xor(a \div 2, b \div 2)

\* All sequences over S of length 0..n
SeqsUpTo(S, n) == UNION {[1..k -> S] : k \in 0..n}

\* character codes
OrdA == 65
IsUpperCode(c) == c >= 65 /\ c <= 90
IsLowerCode(c) == c >= 97 /\ c <= 122
IsAlpha(c) == IsUpperCode(c) \/ IsLowerCode(c)
Upper(c) == IF IsLowerCode(c) THEN c - 32 ELSE c

\* str.rstrip(chars) for a single character code c
RECURSIVE RStrip(_, _)
RStrip(s, c) ==
    IF s = <<>> THEN s
    ELSE IF s[Len(s)] = c THEN RStrip(SubSeq(s, 1, Len(s) - 1), c)
    ELSE s

-----------------------------------------------------------------------------
(* Poly-Hill cipher: poly_hill_cipher.py                                   *)

\* block_size = 2 of IoTPolyHillCipher.__init__ and modulus = 26 of
\* PolyHillCipher.__init__; 23 is the letter X that _pad_text appends
BlockSize == 2
Modulus == 26
PadValue == 23

\* Bound: the longest text handed to encrypt, in blocks
MaxBlocks == 2

\* Matrices are tuples of rows
Mat(a, b, c, d) == <<<<a, b>>, <<c, d>>>>
Det2(M) == M[1][1] * M[2][2] - M[1][2] * M[2][1]

\* Matrices np.random.randint may return / a caller may pass to set_keys
HillCandidates ==
    { Mat(1, 0, 0, 1), Mat(3, 2, 1, 1), Mat(2, 0, 0, 2), Mat(1, 0, 7, 10) }

\* np.linalg.det works in binary64 by LU factorisation with partial pivoting;
\* for these candidates the product of the pivots falls just below the exact
\* integer determinant (Mat(1,0,7,10): 7 * (10 * (1/7)) = 9.999999999999998).
LuShortfall == { Mat(1, 0, 7, 10) }

\* int(np.linalg.det(M)): the binary64 determinant truncated toward zero
NpDetInt(M) == IF M \in LuShortfall THEN Det2(M) - Sgn(Det2(M)) ELSE Det2(M)

\* _mod_inverse(a, m): [ok, v]; ok = FALSE is the ValueError
ModInverseExists(a, m) == Gcd(a % m, m) = 1
mod_inverse(a, m) ==
    IF ModInverseExists(a, m)
    THEN [ok |-> TRUE, v |-> CHOOSE x \in 0..(m - 1) : ((a % m) * x) % m = 1 % m]
    ELSE [ok |-> FALSE, v |-> 0]

\* _matrix_inverse(matrix) for n = 2: the minors are 1 x 1, their determinant exact
matrix_inverse(M) ==
    LET det == PyMod(NpDetInt(M), Modulus)
        di == mod_inverse(det, Modulus)
        minor(i, j) == M[3 - i][3 - j]
        cof(i, j) == (IF (i + j) % 2 = 0 THEN 1 ELSE -1) * minor(i, j)
        \* adj_matrix[j][i] = (cofactor(i, j) * det_inv) % p
        adj == [j \in 1..2 |-> [i \in 1..2 |-> PyMod(cof(i, j) * di.v, Modulus)]]
    IN  IF di.ok THEN [ok |-> TRUE, m |-> adj] ELSE [ok |-> FALSE, m |-> M]

\* P(x) mod p, accumulated as _build_lookup_tables does
RECURSIVE PolyAcc(_, _, _)
PolyAcc(coeffs, x, i) ==
    IF i = 0 THEN 0
    ELSE (PolyAcc(coeffs, x, i - 1) + coeffs[i] * IPow(x, i - 1)) % Modulus
PolyValue(coeffs, x) == PolyAcc(coeffs, x, Len(coeffs))

\* _build_lookup_tables: the forward table, and the inverse table in which a
\* later x overwrites an earlier one with the same P(x)
BuildPolyLookup(coeffs) == [x \in 0..(Modulus - 1) |-> PolyValue(coeffs, x)]
BuildInverseLookup(coeffs) ==
    LET pl == BuildPolyLookup(coeffs)
        img == {pl[x] : x \in 0..(Modulus - 1)}
    IN  [v \in img |-> CHOOSE x \in 0..(Modulus - 1) :
                          /\ pl[x] = v
                          /\ \A y \in 0..(Modulus - 1) : pl[y] = v => y <= x]

\* _text_to_numbers / _numbers_to_text / _pad_text
RECURSIVE text_to_numbers(_)
text_to_numbers(text) ==
    IF text = <<>> THEN <<>>
    ELSE IF IsAlpha(Head(text))
         THEN <<Upper(Head(text)) - OrdA>> \o text_to_numbers(Tail(text))
         ELSE text_to_numbers(Tail(text))

numbers_to_text(numbers) == [k \in 1..Len(numbers) |-> (numbers[k] % Modulus) + OrdA]

RECURSIVE pad_text(_)
pad_text(numbers) ==
    IF Len(numbers) % BlockSize # 0 THEN pad_text(Append(numbers, PadValue))
    ELSE numbers

\* matrix @ column vector, mod p
MatVecMod(M, v) ==
    [r \in 1..BlockSize |-> PyMod(M[r][1] * v[1] + M[r][2] * v[2], Modulus)]

\* a mask that leaves out the position within the block
XorMaskOfBlockOnly(block_index, j) == block_index % Modulus
\* The XOR mask of position j (1-based here) of block block_index (0-based)
XorMask(block_index, j) == (block_index + (j - 1)) % Modulus

\* a block whose mask also takes in the first letter of the text
EncryptBlockMaskedByFirstLetter(pl, M, numbers, b) ==
    LET block == SubSeq(numbers, b * BlockSize + 1, (b + 1) * BlockSize)
        poly_block == [k \in 1..BlockSize |-> pl[block[k] % Modulus]]
        hill_result == MatVecMod(M, poly_block)
    IN  [j \in 1..BlockSize |->
            Xor(hill_result[j], (XorMask(b, j) + numbers[1]) % Modulus) % Modulus]

\* One block of encrypt (lines 220-237); b is the 0-based block index
EncryptBlock(pl, M, numbers, b) ==
    LET block == SubSeq(numbers, b * BlockSize + 1, (b + 1) * BlockSize)
        poly_block == [k \in 1..BlockSize |-> pl[block[k] % Modulus]]
        hill_result == MatVecMod(M, poly_block)
    IN  [j \in 1..BlockSize |-> Xor(hill_result[j], XorMask(b, j)) % Modulus]

RECURSIVE EncryptBlocks(_, _, _, _)
EncryptBlocks(pl, M, numbers, b) ==
    IF b * BlockSize >= Len(numbers) THEN <<>>
    ELSE EncryptBlock(pl, M, numbers, b) \o EncryptBlocks(pl, M, numbers, b + 1)

\* inverse_lookup.get(y % p, 0)
inverse_polynomial_transform(il, y) ==
    IF (y % Modulus) \in DOMAIN il THEN il[y % Modulus] ELSE 0

\* One block of decrypt (lines 259-279)
DecryptBlock(il, Minv, numbers, b) ==
    LET block == SubSeq(numbers, b * BlockSize + 1, (b + 1) * BlockSize)
        deobf == [j \in 1..BlockSize |-> Xor(block[j], XorMask(b, j)) % Modulus]
        hill_result == MatVecMod(Minv, deobf)
    IN  [j \in 1..BlockSize |-> inverse_polynomial_transform(il, hill_result[j])]

RECURSIVE DecryptBlocks(_, _, _, _)
DecryptBlocks(il, Minv, numbers, b) ==
    IF b * BlockSize >= Len(numbers) THEN <<>>
    ELSE DecryptBlock(il, Minv, numbers, b) \o DecryptBlocks(il, Minv, numbers, b + 1)

\* How a call ends
Returned(op, arg, res) == [op |-> op, arg |-> arg, outcome |-> "return", result |-> res]
Raised(op, arg, err) == [op |-> op, arg |-> arg, outcome |-> err, result |-> <<>>]
NoCall == [op |-> "none", arg |-> <<>>, outcome |-> "none", result |-> <<>>]

\* encrypt(plaintext), lines 200-239
encrypt(plaintext) ==
    IF IsNone(polynomial_coeffs) \/ IsNone(hill_matrix)
    THEN Raised("encrypt", plaintext, "ValueError: Keys not generated")
    ELSE LET numbers == pad_text(text_to_numbers(plaintext))
         IN  IF numbers = <<>>
             THEN Returned("encrypt", plaintext, <<>>)
             ELSE IF IsNone(poly_lookup)
                  \* self.poly_lookup[x % self.p] on None
                  THEN Raised("encrypt", plaintext, "TypeError")
                  ELSE Returned("encrypt", plaintext,
                           numbers_to_text(EncryptBlocks(Val(poly_lookup),
                                                         Val(hill_matrix), numbers, 0)))

\* decrypt(ciphertext), lines 241-283
decrypt(ciphertext) ==
    IF IsNone(hill_matrix_inv)
    THEN Raised("decrypt", ciphertext, "ValueError: Keys not generated")
    ELSE LET numbers == text_to_numbers(ciphertext)
         IN  IF Len(numbers) % BlockSize # 0
             \* np.array(block).reshape(n, 1) on a short last block
             THEN Raised("decrypt", ciphertext, "ValueError: reshape")
             ELSE Returned("decrypt", ciphertext,
                      RStrip(numbers_to_text(DecryptBlocks(Val(inverse_lookup),
                                                 Val(hill_matrix_inv), numbers, 0)), 88))


\* Coefficient lists random.randint(1, p - 1) may produce for n + 1 = 3 draws:
\* 1 + 2x + 13x^2 is a bijection of 0..25, 1 + x + x^2 is not
GenPolys == { <<1, 2, 13>>, <<1, 1, 1>> }
\* Coefficient lists a caller may pass to set_keys (manual_demo.py passes 1 + 2x)
SetPolys == GenPolys \cup { <<0, 1, 0>>, <<1, 2>> }

\* The tables and inverses of the candidates, evaluated once
PolyLookupOf == [c \in SetPolys |-> BuildPolyLookup(c)]
InverseLookupOf == [c \in SetPolys |-> BuildInverseLookup(c)]
MatrixInverseOf == [m \in HillCandidates |-> matrix_inverse(m)]

\* The texts a caller passes: letters A, Y up to MaxBlocks blocks, three
\* texts with lower case, a space, a final X, the "HI" of manual_demo.py, and
\* the first four blocks "CRYPTOGR" of the text of phc_demo.py
PlainTexts ==
    SeqsUpTo({65, 89}, BlockSize * MaxBlocks)
        \cup { <<72, 105>>, <<97, 32, 121>>, <<65, 88>>, <<72, 73>>,
               <<67, 82, 89, 80, 84, 79, 71, 82>> }
\* Ciphertexts a caller passes to decrypt besides the last encrypt result
FixedCiphertexts == { <<>>, <<66, 72>>, <<66>> }

\* The test of generate_key's sampling loop, line 64
AcceptedByGenerateKey(M) ==
    LET det == PyMod(NpDetInt(M), Modulus)
    IN  det # 0 /\ Gcd(det, Modulus) = 1

InitPHC ==
    /\ polynomial_coeffs = None
    /\ hill_matrix = None
    /\ hill_matrix_inv = None
    /\ poly_lookup = None
    /\ inverse_lookup = None
    /\ phc_text \in PlainTexts
    /\ phc_call = NoCall
    /\ phc_enc = None
    /\ phc_key_calls = [ok |-> FALSE, last |-> "none"]

\* generate_key(seed), lines 41-73: the seed decides the draws
GenerateKey ==
    \E coeffs \in GenPolys, M \in {m \in HillCandidates : AcceptedByGenerateKey(m)} :
        /\ polynomial_coeffs' = Some(coeffs)
        /\ hill_matrix' = Some(M)
        /\ hill_matrix_inv' = Some(MatrixInverseOf[M].m)
        /\ poly_lookup' = Some(PolyLookupOf[coeffs])
        /\ inverse_lookup' = Some(InverseLookupOf[coeffs])
        /\ phc_call' = Returned("generate_key", <<>>, <<>>)
        /\ phc_enc' = None
        /\ phc_key_calls' = [ok |-> TRUE, last |-> "generate_key"]
        /\ UNCHANGED phc_text
    /\ UNCHANGED otherThanPHC

\* set_keys(polynomial_coeffs, hill_matrix), lines 299-310: the first two
\* assignments are made before _matrix_inverse can raise
SetKeys ==
    \E coeffs \in SetPolys, M \in HillCandidates :
        LET mi == MatrixInverseOf[M]
        IN  /\ polynomial_coeffs' = Some(coeffs)
            /\ hill_matrix' = Some(M)
            /\ phc_enc' = None
            /\ UNCHANGED phc_text
            /\ IF mi.ok
               THEN /\ hill_matrix_inv' = Some(mi.m)
                    /\ poly_lookup' = Some(PolyLookupOf[coeffs])
                    /\ inverse_lookup' = Some(InverseLookupOf[coeffs])
                    /\ phc_call' = Returned("set_keys", <<>>, <<>>)
                    /\ phc_key_calls' = [ok |-> TRUE, last |-> "set_keys"]
               ELSE /\ UNCHANGED <<hill_matrix_inv, poly_lookup, inverse_lookup>>
                    /\ phc_call' = Raised("set_keys", <<>>,
                                          "ValueError: Modular inverse does not exist")
                    /\ phc_key_calls' = [phc_key_calls EXCEPT !.last = "set_keys raised"]
    /\ UNCHANGED otherThanPHC

Encrypt ==
    LET r == encrypt(phc_text)
    IN  /\ phc_call' = r
        /\ phc_enc' = IF r.outcome = "return"
                      THEN Some([pt |-> phc_text, ct |-> r.result])
                      ELSE phc_enc
        /\ UNCHANGED <<polynomial_coeffs, hill_matrix, hill_matrix_inv, poly_lookup,
                       inverse_lookup, phc_text, phc_key_calls>>
    /\ UNCHANGED otherThanPHC

Decrypt ==
    \E c \in FixedCiphertexts \cup (IF IsNone(phc_enc) THEN {} ELSE {Val(phc_enc).ct}) :
        /\ phc_call' = decrypt(c)
        /\ UNCHANGED <<polynomial_coeffs, hill_matrix, hill_matrix_inv, poly_lookup,
                       inverse_lookup, phc_text, phc_enc, phc_key_calls>>
    /\ UNCHANGED otherThanPHC

\* PHCSecurityUtils.avalanche_test (phc_security_utils.py, lines 173-222)

\* Bound: num_tests, the number of trials of one avalanche_test call
NumTests == 2

\* one trial (lines 193-210): position pos gets new_char and the text is
\* encrypted again; the trial counts only if both ciphertexts have one length
avalanche_trial(plaintext, original_ciphertext, pos, new_char) ==
    LET modified == encrypt([plaintext EXCEPT ![pos] = new_char])
        ct == modified.result
    IN  IF modified.outcome # "return" THEN [kind |-> "raise", diff_count |-> 0]
        ELSE IF Len(ct) # Len(original_ciphertext) THEN [kind |-> "skip", diff_count |-> 0]
        ELSE [kind |-> "ratio",
              diff_count |-> Cardinality({i \in 1..Len(ct) : ct[i] # original_ciphertext[i]})]

\* what a trial can come to: random.randint picks the position and a letter
\* of A..Z other than the character that is there
TrialOutcomes(plaintext, original_ciphertext) ==
    {avalanche_trial(plaintext, original_ciphertext, pos, new_char) :
        pos \in 1..Len(plaintext), new_char \in 65..90} \
    {avalanche_trial(plaintext, original_ciphertext, pos, plaintext[pos]) :
        pos \in {k \in 1..Len(plaintext) : plaintext[k] \in 65..90}}

RECURSIVE SumDiffCounts(_)
SumDiffCounts(ratios) ==
    IF ratios = <<>> THEN 0 ELSE Head(ratios).diff_count + SumDiffCounts(Tail(ratios))

\* avalanche_test(cipher, plaintext, num_tests) when the trials came to drawn.
\* The average is the fraction sum / (count * len), kept exact
avalanche_test(plaintext, drawn) ==
    LET original == encrypt(plaintext)
        ratios == SelectSeq(drawn, LAMBDA o : o.kind = "ratio")
    IN  IF plaintext = <<>>
        THEN Returned("avalanche_test", plaintext, [error |-> "Empty plaintext"])
        ELSE IF original.outcome # "return"
        THEN Raised("avalanche_test", plaintext, original.outcome)
        ELSE IF \E k \in 1..Len(drawn) : drawn[k].kind = "raise"
        THEN Raised("avalanche_test", plaintext, "TypeError")
        ELSE IF ratios = <<>>
        THEN Returned("avalanche_test", plaintext, [error |-> "No valid tests performed"])
        ELSE Returned("avalanche_test", plaintext,
                      [sum |-> SumDiffCounts(ratios), count |-> Len(ratios),
                       len |-> Len(original.result)])

AvalancheTest ==
    /\ LET original == encrypt(phc_text)
       IN  IF phc_text = <<>> \/ original.outcome # "return"
           \* the call ends before the first trial
           THEN phc_call' = avalanche_test(phc_text, <<>>)
           ELSE \E drawn \in [1..NumTests -> TrialOutcomes(phc_text, original.result)] :
                    phc_call' = avalanche_test(phc_text, drawn)
    /\ UNCHANGED <<polynomial_coeffs, hill_matrix, hill_matrix_inv, poly_lookup,
                   inverse_lookup, phc_text, phc_enc, phc_key_calls>>
    /\ UNCHANGED otherThanPHC

NextAvalanche ==
    \/ GenerateKey
    \/ SetKeys
    \/ AvalancheTest

NextPHC ==
    \/ GenerateKey
    \/ SetKeys
    \/ Encrypt
    \/ Decrypt


-----------------------------------------------------------------------------
(* Claims about the Poly-Hill cipher                                       *)

\* The plaintexts claim C1 speaks of: letters A-Z only, whole blocks, no final X
RoundTripPlaintext(pt) ==
    /\ \A k \in 1..Len(pt) : IsUpperCode(pt[k])
    /\ Len(pt) % BlockSize = 0
    /\ (pt # <<>> => pt[Len(pt)] # 88)

\* The present key was installed by a generate_key or set_keys call that
\* returned; "valid key material" is read at its strictest: the Hill matrix is
\* invertible mod 26 and the polynomial is a bijection of 0..25 (a violation
\* under these keys is a violation under the wider class the claim names)
PolyIsBijection(coeffs) ==
    \A x, y \in 0..(Modulus - 1) : PolyValue(coeffs, x) = PolyValue(coeffs, y) => x = y
BijectivePolys == {c \in SetPolys : PolyIsBijection(c)}
ValidKeyInstalled ==
    /\ phc_key_calls.last \in {"generate_key", "set_keys"}
    /\ Gcd(PyMod(Det2(Val(hill_matrix)), Modulus), Modulus) = 1
    /\ Val(polynomial_coeffs) \in BijectivePolys

\* C1 (as claimed): under every validly installed key, decrypting the result of
\* encrypt(pt) returns pt, for every A-Z plaintext of whole blocks that does
\* not end in X, whatever the number of blocks (every XOR mask).
C1_RoundTripClaimed ==
    ( /\ phc_call.op = "decrypt"
      /\ ~IsNone(phc_enc)
      /\ phc_call.arg = Val(phc_enc).ct
      /\ ValidKeyInstalled
      /\ RoundTripPlaintext(Val(phc_enc).pt) )
    => ( phc_call.outcome = "return" /\ phc_call.result = Val(phc_enc).pt )

\* C9 (as claimed): while no generate_key / set_keys call has completed
\* successfully, every encrypt and decrypt call raises the keys-not-generated
\* error and returns nothing.
C9_KeyPreconditionClaimed ==
    ( phc_call.op \in {"encrypt", "decrypt"} /\ ~phc_key_calls.ok )
    => phc_call.outcome = "ValueError: Keys not generated"

\* the cipher is keyed by set_keys([1, 2], [[3, 2], [1, 1]]) and encrypt("HI")
\* has returned
WorkedExampleEncrypted ==
    /\ phc_key_calls.last = "set_keys"
    /\ polynomial_coeffs = Some(<<1, 2>>)
    /\ hill_matrix = Some(Mat(3, 2, 1, 1))
    /\ phc_call.op = "encrypt"
    /\ phc_call.arg = <<72, 73>>

\* C13: with block size 2, modulus 26 and the keys P(x) = 1 + 2x and
\* [[3,2],[1,1]] installed by set_keys, encrypt("HI") goes through the
\* polynomial values [15,17], the Hill output [1,6] and the obfuscated values
\* [1,7] and returns "BH".
C13_WorkedExample ==
    WorkedExampleEncrypted =>
        LET numbers == text_to_numbers(phc_call.arg)
            poly_block == [k \in 1..BlockSize |-> Val(poly_lookup)[numbers[k] % Modulus]]
        IN  /\ BlockSize = 2 /\ Modulus = 26
            /\ numbers = <<7, 8>>
            /\ poly_block = <<15, 17>>
            /\ MatVecMod(Val(hill_matrix), poly_block) = <<1, 6>>
            /\ EncryptBlock(Val(poly_lookup), Val(hill_matrix), numbers, 0) = <<1, 7>>
            /\ phc_call.outcome = "return"
            /\ phc_call.result = <<66, 72>>

\* C13 witness: the worked example has run and returned "BH"
C13_HIEncryptedToBH ==
    WorkedExampleEncrypted /\ phc_call.outcome = "return" /\ phc_call.result = <<66, 72>>

\* the product of two 2 x 2 matrices mod p
MatMulMod(A, B) ==
    [i \in 1..2 |-> [j \in 1..2 |->
        PyMod(A[i][1] * B[1][j] + A[i][2] * B[2][j], Modulus)]]

\* C27 (as claimed): after generate_key has returned, and after set_keys has
\* returned for a matrix invertible mod p, the determinant of the stored Hill
\* matrix is non-zero mod p and coprime to p, and the stored matrix times the
\* cached hill_matrix_inv is the identity mod p.
C27_KeyInvariantClaimed ==
    (/\ phc_key_calls.last \in {"generate_key", "set_keys"}
     /\ phc_key_calls.last = "set_keys" => ModInverseExists(Det2(Val(hill_matrix)), Modulus))
    => /\ PyMod(Det2(Val(hill_matrix)), Modulus) # 0
       /\ Gcd(PyMod(Det2(Val(hill_matrix)), Modulus), Modulus) = 1
       /\ MatMulMod(Val(hill_matrix), Val(hill_matrix_inv)) = Mat(1, 0, 0, 1)

\* C28 (as claimed): a set_keys call that raises leaves polynomial_coeffs,
\* hill_matrix, hill_matrix_inv, poly_lookup and inverse_lookup as they were
\* before the call.
C28_FailedSetKeysChangesNothingClaimed ==
    [][phc_key_calls'.last = "set_keys raised"
         => UNCHANGED <<polynomial_coeffs, hill_matrix, hill_matrix_inv,
                        poly_lookup, inverse_lookup>>]_vars

\* avalanche_test returned its statistics (not one of its error results)
AvalancheMeasured ==
    /\ phc_call.op = "avalanche_test" /\ phc_call.outcome = "return"
    /\ "sum" \in DOMAIN phc_call.result

\* C22 (as claimed): whenever avalanche_test returns statistics, under any key
\* and for a plaintext of any length, the average fraction of differing
\* ciphertext characters lies between 0.3 and 0.7.
C22_AvalancheClaimed ==
    AvalancheMeasured =>
        LET r == phc_call.result
        IN  /\ 3 * r.count * r.len <= 10 * r.sum
            /\ 10 * r.sum <= 7 * r.count * r.len

\* C30: under the key in place, for a plaintext of letters A-Z and every
\* replacement of one letter at position k by another letter, the two
\* ciphertexts have one length and differ only inside the block of position
\* k; so no trial of avalanche_test counts more than block_size differences.
C30_DiffusionLocality ==
    (AvalancheMeasured /\ \A k \in 1..Len(phc_text) : phc_text[k] \in 65..90) =>
        LET c1 == encrypt(phc_text).result
        IN  /\ \A k \in 1..Len(phc_text) : \A new_char \in (65..90) \ {phc_text[k]} :
                  LET c2 == encrypt([phc_text EXCEPT ![k] = new_char]).result
                  IN  /\ Len(c2) = Len(c1)
                      /\ \A i \in 1..Len(c1) :
                            c1[i] # c2[i] => (i - 1) \div BlockSize = (k - 1) \div BlockSize
            /\ phc_call.result.sum <= BlockSize * phc_call.result.count

\* C30 witness: avalanche_test ran on the four blocks of "CRYPTOGR" and every
\* trial changed both characters of one block
C30_WholeBlockChanged ==
    /\ AvalancheMeasured /\ phc_text = <<67, 82, 89, 80, 84, 79, 71, 82>>
    /\ phc_call.result.len = 4 * BlockSize
    /\ phc_call.result.sum = BlockSize * phc_call.result.count

-----------------------------------------------------------------------------
(* Stego-2FA: storage, crypto and steganography helpers                    *)
(* Image coordinates are the normalised floats of ClickableImage in units  *)
(* of 1/10000 (2500 stands for the binary64 number nearest 0.25).          *)

SUCCESS_TOKEN == "MLS_SUCCESS_TOKEN"

\* tol = 0.02 of LoginWizard._spot_within_tolerance, in coordinate units
Tol == 200

Usernames == {"alice", "bob"}
NameInputs == {"", " ", "alice", "bob"}
Passphrases == {"k1", "k2"}
SampleImages == {<<"images", "a.png">>, <<"images", "b.png">>}
ClickPoints == {<<2500, 2500>>, <<2300, 2500>>, <<2700, 2500>>, <<2500, 2700>>,
                <<2400, 2500>>, <<2701, 2500>>, <<2500, 2701>>, <<6000, 6000>>}

\* str.strip() on the texts of NameInputs
Strip(s) == IF s = " " THEN "" ELSE s

\* str.encode('utf-8') / bytes.decode('utf-8') and bytes.decode('latin1') /
\* str.encode('latin1'): tagged wrappers, the decoder undoes only its own tag
Utf8Encode(s) == [enc |-> "utf-8", of |-> s]
Utf8Decode(b) == b.of
Latin1Decode(b) == [enc |-> "latin1", of |-> b]
Latin1Encode(s) == s.of

\* crypto_utils.py: SHA-256 of passphrase + salt is a one-to-one constructor;
\* a Fernet token decrypts under the key it was made with and under no other
derive_fernet_key_from_passphrase(passphrase) ==
    [sha256 |-> passphrase, salt |-> "mls-2fa-poc"]
encrypt_token_with_passphrase(plaintext, passphrase) ==
    [key |-> derive_fernet_key_from_passphrase(passphrase), data |-> Utf8Encode(plaintext)]
decrypt_token_with_passphrase(ciphertext, passphrase) ==
    IF ciphertext.key = derive_fernet_key_from_passphrase(passphrase)
    THEN [ok |-> TRUE, plaintext |-> Some(Utf8Decode(ciphertext.data))]
    ELSE [ok |-> FALSE, plaintext |-> None]

\* steganography_utils.py: the files map holds, per image file, the payload
\* lsb.reveal would return (None for an image that carries nothing)
WriteFile(fs, path, content) ==
    [q \in (DOMAIN fs) \cup {path} |-> IF q = path THEN content ELSE fs[q]]
hide_bytes_in_image(fs, input_image_path, data, output_image_path) ==
    WriteFile(fs, output_image_path, Some(Latin1Decode(data)))
reveal_bytes_from_image(fs, image_path) ==
    IF IsNone(fs[image_path]) THEN None ELSE Some(Latin1Encode(Val(fs[image_path])))

\* user_manager.py
UserProfile(username, stego_image_path, secret_coordinates, decoy_images) ==
    [username |-> username, stego_image_path |-> stego_image_path,
     secret_coordinates |-> secret_coordinates, decoy_images |-> decoy_images]
ProfileData(profile) ==
    [stego_image_path |-> profile.stego_image_path,
     secret_coordinates |-> profile.secret_coordinates,
     decoy_images |-> profile.decoy_images]
get_user(db, username) ==
    IF username \in DOMAIN db
    THEN Some(UserProfile(username, db[username].stego_image_path,
                          db[username].secret_coordinates, db[username].decoy_images))
    ELSE None
\* a save that starts from an empty dict instead of the loaded one
save_user_profile_alone(db, profile) ==
    [u \in {profile.username} |-> ProfileData(profile)]
\* the db written by save_user_profile when load_user_db returned db
save_user_profile(db, profile) ==
    [u \in (DOMAIN db) \cup {profile.username} |->
        IF u = profile.username THEN ProfileData(profile) ELSE db[u]]
\* get_or_create_user_directory(username) / "stego_image.png"
StegoPath(username) == <<"user_data", username, "stego_image.png">>

\* abs(x - saved) <= 0.02 in binary64.  Away from the boundary the float
\* comparison agrees with the exact one; at an exact distance of Tol the
\* rounded difference is either 0.02 or the next double above it, and these
\* are the ordered pairs (clicked, saved) of the coordinates of ClickPoints
\* for which it stays within 0.02
Binary64WithinAtTol == {<<2300, 2500>>, <<2500, 2300>>}
FloatWithinTol(clicked, saved) ==
    LET d == Abs(clicked - saved)
    IN  d < Tol \/ (d = Tol /\ <<clicked, saved>> \in Binary64WithinAtTol)
\* a check of the x axis alone: what _spot_within_tolerance would be without
\* its second conjunct
spot_within_tolerance_x_only(profile, clicked) ==
    FloatWithinTol(clicked[1], profile.secret_coordinates.x)
spot_within_tolerance(profile, clicked) ==
    /\ FloatWithinTol(clicked[1], profile.secret_coordinates.x)
    /\ FloatWithinTol(clicked[2], profile.secret_coordinates.y)

-----------------------------------------------------------------------------
(* Stego-2FA: MainWindow, RegistrationWizard and LoginWizard (main.py)     *)

\* the QMessageBox shown by the last Next, Back or close of a wizard (kind
\* "none": it showed none)
Msg(kind, text) == [kind |-> kind, text |-> text]
NoMsg == Msg("none", "")

\* RegistrationWizard.__init__ / LoginWizard.__init__.  clicked_on is history:
\* the image the spot page showed when _on_spot_clicked last ran
RegistrationWizard ==
    [page |-> 0, username_input |-> "", username |-> None,
     selected_image_path |-> None, spot_view |-> None, secret |-> None,
     clicked_on |-> None,
     passphrase_input |-> "", passphrase |-> None, result |-> "open", msg |-> NoMsg]
LoginWizard ==
    [page |-> 0, username_input |-> "", username |-> None, profile |-> None,
     grid |-> {}, selected_grid_image_path |-> None, spot_view |-> None,
     clicked |-> None, passphrase_input |-> "", passphrase |-> None,
     result |-> "open", msg |-> NoMsg]

\* secret points offered to the registration click
SecretPoints == {<<2500, 2500>>, <<6000, 6000>>}

\* MainWindow.open_registration / open_login: dialog.exec_() of a new wizard
OpenRegistration ==
    /\ dialog = "main"
    /\ dialog' = "register"
    /\ reg' = RegistrationWizard
    /\ UNCHANGED <<user_db, files, login>>
    /\ UNCHANGED otherThanStego

OpenLogin ==
    /\ dialog = "main"
    /\ dialog' = "login"
    /\ login' = LoginWizard
    /\ UNCHANGED <<user_db, files, reg>>
    /\ UNCHANGED otherThanStego

\* exec_() returns once the dialog was accepted or rejected
DialogReturns ==
    /\ \/ dialog = "register" /\ reg.result # "open"
       \/ dialog = "login" /\ login.result # "open"
    /\ dialog' = "main"
    /\ reg' = RegistrationWizard
    /\ login' = LoginWizard
    /\ UNCHANGED <<user_db, files>>
    /\ UNCHANGED otherThanStego

\* closing the window or pressing Esc: QDialog.reject()
CloseDialog ==
    /\ \/ /\ dialog = "register" /\ reg.result = "open"
          /\ reg' = [reg EXCEPT !.result = "rejected", !.msg = NoMsg]
          /\ UNCHANGED login
       \/ /\ dialog = "login" /\ login.result = "open"
          /\ login' = [login EXCEPT !.result = "rejected", !.msg = NoMsg]
          /\ UNCHANGED reg
    /\ UNCHANGED <<user_db, files, dialog>>
    /\ UNCHANGED otherThanStego

RegOpen == dialog = "register" /\ reg.result = "open"

RegTypeUsername ==
    /\ RegOpen /\ reg.page = 0
    /\ \E t \in NameInputs : reg' = [reg EXCEPT !.username_input = t]
    /\ UNCHANGED <<user_db, files, dialog, login>>
    /\ UNCHANGED otherThanStego

\* RegistrationWizard._select_image, a button of the image grid
RegSelectImage ==
    /\ RegOpen /\ reg.page = 1
    /\ \E p \in SampleImages : reg' = [reg EXCEPT !.selected_image_path = Some(p)]
    /\ UNCHANGED <<user_db, files, dialog, login>>
    /\ UNCHANGED otherThanStego

\* ClickableImage.mousePressEvent -> RegistrationWizard._on_spot_clicked
RegSpotClicked ==
    /\ RegOpen /\ reg.page = 2 /\ ~IsNone(reg.spot_view)
    /\ \E pt \in SecretPoints :
          reg' = [reg EXCEPT !.secret = Some(pt), !.clicked_on = reg.spot_view]
    /\ UNCHANGED <<user_db, files, dialog, login>>
    /\ UNCHANGED otherThanStego

RegTypePassphrase ==
    /\ RegOpen /\ reg.page = 3
    /\ \E t \in {""} \cup Passphrases : reg' = [reg EXCEPT !.passphrase_input = t]
    /\ UNCHANGED <<user_db, files, dialog, login>>
    /\ UNCHANGED otherThanStego

\* RegistrationWizard.go_prev (the Back button is enabled from page 1 on)
RegGoPrev ==
    /\ RegOpen /\ reg.page > 0
    /\ reg' = [reg EXCEPT !.page = reg.page - 1, !.msg = NoMsg]
    /\ UNCHANGED <<user_db, files, dialog, login>>
    /\ UNCHANGED otherThanStego

\* RegistrationWizard._finalize_registration: the profile it saves
RegisteredProfile(r) ==
    UserProfile(Val(r.username), StegoPath(Val(r.username)),
                [x |-> Val(r.secret)[1], y |-> Val(r.secret)[2]],
                SampleImages \ {Val(r.selected_image_path)})

\* QMessageBox.warning(...) followed by reject(): a validation failure that
\* would close the wizard
WarnAndReject(l, text) == [l EXCEPT !.msg = Msg("warning", text), !.result = "rejected"]
\* QMessageBox.warning(...); return
Warn(l, text) == [l EXCEPT !.msg = Msg("warning", text)]

\* RegistrationWizard.go_next
RegGoNext ==
    /\ RegOpen
    /\ CASE reg.page = 0 ->
              /\ reg' = IF Strip(reg.username_input) = ""
                        THEN Warn(reg, "Please enter a username.")
                        ELSE [reg EXCEPT !.username = Some(Strip(reg.username_input)),
                                         !.page = 1, !.msg = NoMsg]
              /\ UNCHANGED <<user_db, files>>
         [] reg.page = 1 ->
              /\ reg' = IF IsNone(reg.selected_image_path)
                        THEN Warn(reg, "Please select an image.")
                        ELSE [reg EXCEPT !.spot_view = reg.selected_image_path,
                                         !.page = 2, !.msg = NoMsg]
              /\ UNCHANGED <<user_db, files>>
         [] reg.page = 2 ->
              /\ reg' = IF IsNone(reg.secret)
                        THEN Warn(reg, "Please click on the image to set your secret spot.")
                        ELSE [reg EXCEPT !.page = 3, !.msg = NoMsg]
              /\ UNCHANGED <<user_db, files>>
         [] reg.page = 3 ->
              IF reg.passphrase_input = ""
              THEN /\ reg' = Warn(reg, "Please enter a stego passphrase.")
                   /\ UNCHANGED <<user_db, files>>
              ELSE LET r == [reg EXCEPT !.passphrase = Some(reg.passphrase_input)]
                       cipher == encrypt_token_with_passphrase(SUCCESS_TOKEN,
                                                               Val(r.passphrase))
                       profile == RegisteredProfile(r)
                   IN  /\ files' = hide_bytes_in_image(files, Val(r.selected_image_path),
                                                       cipher, profile.stego_image_path)
                       /\ user_db' = save_user_profile(user_db, profile)
                       /\ reg' = [r EXCEPT !.result = "accepted",
                                           !.msg = Msg("information", "registered successfully")]
    /\ UNCHANGED <<dialog, login>>
    /\ UNCHANGED otherThanStego

LoginOpen == dialog = "login" /\ login.result = "open"

LoginTypeUsername ==
    /\ LoginOpen /\ login.page = 0
    /\ \E t \in NameInputs : login' = [login EXCEPT !.username_input = t]
    /\ UNCHANGED <<user_db, files, dialog, reg>>
    /\ UNCHANGED otherThanStego

\* LoginWizard._load_grid_images: the stego image and the decoys that load
load_grid_images(profile, fs) ==
    {p \in {profile.stego_image_path} \cup profile.decoy_images : p \in DOMAIN fs}

\* LoginWizard._choose_grid_image, a button of the grid
LoginChooseGridImage ==
    /\ LoginOpen /\ login.page = 1
    /\ \E p \in login.grid : login' = [login EXCEPT !.selected_grid_image_path = Some(p)]
    /\ UNCHANGED <<user_db, files, dialog, reg>>
    /\ UNCHANGED otherThanStego

\* ClickableImage.mousePressEvent -> LoginWizard._on_spot_clicked
LoginSpotClicked ==
    /\ LoginOpen /\ login.page = 2 /\ ~IsNone(login.spot_view)
    /\ \E pt \in ClickPoints : login' = [login EXCEPT !.clicked = Some(pt)]
    /\ UNCHANGED <<user_db, files, dialog, reg>>
    /\ UNCHANGED otherThanStego

LoginTypePassphrase ==
    /\ LoginOpen /\ login.page = 3
    /\ \E t \in {""} \cup Passphrases : login' = [login EXCEPT !.passphrase_input = t]
    /\ UNCHANGED <<user_db, files, dialog, reg>>
    /\ UNCHANGED otherThanStego

\* LoginWizard.go_prev (the Back button is enabled from page 1 on)
LoginGoPrev ==
    /\ LoginOpen /\ login.page > 0
    /\ login' = [login EXCEPT !.page = login.page - 1, !.msg = NoMsg]
    /\ UNCHANGED <<user_db, files, dialog, reg>>
    /\ UNCHANGED otherThanStego

\* QMessageBox.critical(...); return -- the failure handling without reject()
LoginFailedStaysOpen(l, text) == [l EXCEPT !.msg = Msg("critical", text)]
\* QMessageBox.critical(...); self.reject(); return
LoginFailed(l, text) == [l EXCEPT !.msg = Msg("critical", text), !.result = "rejected"]

\* LoginWizard._attempt_decrypt_and_finish
attempt_decrypt_and_finish(l, fs) ==
    LET cipher == reveal_bytes_from_image(fs, Val(l.profile).stego_image_path)
        dec == decrypt_token_with_passphrase(Val(cipher), Val(l.passphrase))
    IN  IF IsNone(cipher)
        THEN LoginFailed(l, "Login Failed! No hidden data.")
        ELSE IF ~dec.ok \/ Val(dec.plaintext) # SUCCESS_TOKEN
        THEN LoginFailed(l, "Login Failed! Wrong key.")
        ELSE [l EXCEPT !.msg = Msg("information", "Login Successful!"),
                       !.result = "accepted"]

\* LoginWizard.go_next
go_next(l, db, fs) ==
    CASE l.page = 0 ->
           LET name == Strip(l.username_input)
               l1 == [l EXCEPT !.profile = get_user(db, name)]
           IN  IF name = ""
               THEN Warn(l, "Please enter a username.")
               ELSE IF IsNone(l1.profile)
               THEN [l1 EXCEPT !.msg = Msg("critical",
                                           "User not found. Please register first.")]
               ELSE [l1 EXCEPT !.username = Some(name),
                               !.grid = load_grid_images(Val(l1.profile), fs),
                               !.page = 1, !.msg = NoMsg]
      [] l.page = 1 ->
           IF IsNone(l.selected_grid_image_path)
           THEN Warn(l, "Please select an image from the grid.")
           ELSE IF Val(l.selected_grid_image_path) # Val(l.profile).stego_image_path
           THEN LoginFailed(l, "Login Failed! Wrong image selected.")
           ELSE [l EXCEPT !.spot_view = Some(Val(l.profile).stego_image_path),
                          !.page = 2, !.msg = NoMsg]
      [] l.page = 2 ->
           IF IsNone(l.clicked)
           THEN Warn(l, "Please click on the image.")
           ELSE IF ~spot_within_tolerance(Val(l.profile), Val(l.clicked))
           THEN LoginFailed(l, "Login Failed! Wrong spot.")
           ELSE [l EXCEPT !.page = 3, !.msg = NoMsg]
      [] l.page = 3 ->
           IF l.passphrase_input = ""
           THEN Warn(l, "Please enter your Stego-Key.")
           ELSE attempt_decrypt_and_finish(
                    [l EXCEPT !.passphrase = Some(l.passphrase_input)], fs)

LoginGoNext ==
    /\ LoginOpen
    /\ login' = go_next(login, user_db, files)
    /\ UNCHANGED <<user_db, files, dialog, reg>>
    /\ UNCHANGED otherThanStego

\* The disk at start-up: the sample images, and either no user yet or a user
\* bob registered by an earlier run (secret (0.25, 0.25), passphrase k1) whose
\* stego image is as written, was since replaced by a plain image, or carries
\* a Fernet token of another plaintext
SampleFiles == [p \in SampleImages |-> None]
EarlierProfile ==
    UserProfile("bob", StegoPath("bob"), [x |-> 2500, y |-> 2500], SampleImages)

InitStego ==
    /\ dialog = "main"
    /\ reg = RegistrationWizard
    /\ login = LoginWizard
    /\ \/ user_db = <<>> /\ files = SampleFiles
       \/ /\ user_db = save_user_profile(<<>>, EarlierProfile)
          /\ \E c \in {Some(Latin1Decode(encrypt_token_with_passphrase(SUCCESS_TOKEN, "k1"))),
                      None,
                      Some(Latin1Decode(encrypt_token_with_passphrase("OTHER_TOKEN", "k1")))} :
                files = WriteFile(SampleFiles, StegoPath("bob"), c)

NextStego ==
    \/ OpenRegistration
    \/ OpenLogin
    \/ DialogReturns
    \/ CloseDialog
    \/ RegTypeUsername
    \/ RegSelectImage
    \/ RegSpotClicked
    \/ RegTypePassphrase
    \/ RegGoPrev
    \/ RegGoNext
    \/ LoginTypeUsername
    \/ LoginChooseGridImage
    \/ LoginSpotClicked
    \/ LoginTypePassphrase
    \/ LoginGoPrev
    \/ LoginGoNext

-----------------------------------------------------------------------------
(* Claims about the Stego-2FA wizards                                      *)

LoginAccepted == dialog = "login" /\ login.result = "accepted"
LoginRejectedWith(text) ==
    dialog = "login" /\ login.result = "rejected" /\ login.msg = Msg("critical", text)

\* the image file at path carries a Fernet token made from passphrase k whose
\* plaintext is the success token
HidesSuccessTokenUnder(path, k) ==
    /\ path \in DOMAIN files
    /\ ~IsNone(files[path])
    /\ Val(files[path]).of.key.sha256 = k
    /\ Val(files[path]).of.data.of = SUCCESS_TOKEN

\* the exact (real-number) distance test of the specification, per axis
ExactlyWithinTol(clicked, saved) ==
    Abs(clicked[1] - saved.x) <= Tol /\ Abs(clicked[2] - saved.y) <= Tol

\* C2: whenever the login dialog is in the accepted state, a profile is stored
\* for the entered username, the selected grid image is that profile's stego
\* image, the last click is within 0.02 of the stored point on both axes, and
\* the stego image hides the success token encrypted under the entered
\* passphrase.
C2_LoginSafety ==
    LoginAccepted =>
        LET name == Strip(login.username_input)
        IN  /\ name \in DOMAIN user_db
            /\ login.selected_grid_image_path = Some(user_db[name].stego_image_path)
            /\ ~IsNone(login.clicked)
            /\ ExactlyWithinTol(Val(login.clicked), user_db[name].secret_coordinates)
            /\ HidesSuccessTokenUnder(user_db[name].stego_image_path,
                                      login.passphrase_input)

\* C2 witness: a login accepted for alice, registered in this run, with a click
\* off the stored point (at distance 0.02 on the x axis)
C2_AcceptedOffPoint ==
    /\ LoginAccepted
    /\ login.username = Some("alice")
    /\ login.clicked = Some(<<2300, 2500>>)
    /\ user_db["alice"].secret_coordinates = [x |-> 2500, y |-> 2500]

\* RegistrationWizard finished for username u with image i, secret point pt and
\* passphrase k, and nothing has overwritten what it stored
RegistrationFinishedWith(u, i, pt, k) ==
    /\ u \in DOMAIN user_db
    /\ user_db[u] = ProfileData(UserProfile(u, StegoPath(u),
                                            [x |-> pt[1], y |-> pt[2]], SampleImages \ {i}))
    /\ files[StegoPath(u)] = Some(Latin1Decode(encrypt_token_with_passphrase(SUCCESS_TOKEN, k)))

\* C3 (as claimed): after a registration of u with image i, point pt and
\* passphrase k, a login as u is turned away at the image step only if another
\* image than the stego image was selected, at the spot step only if the click
\* is more than 0.02 from pt on some axis, and at the key step only if another
\* passphrase than k was entered; so the login with the right image, a click
\* within 0.02 and passphrase k is accepted.
C3_RoundTripClaimed ==
    \A u \in Usernames, i \in SampleImages, pt \in SecretPoints, k \in Passphrases :
        ( /\ RegistrationFinishedWith(u, i, pt, k)
          /\ dialog = "login" /\ login.username = Some(u)
          /\ login.result = "rejected" /\ login.msg.kind = "critical" )
        => /\ login.page = 1 => login.selected_grid_image_path # Some(StegoPath(u))
           /\ login.page = 2 =>
                  ~ExactlyWithinTol(Val(login.clicked), [x |-> pt[1], y |-> pt[2]])
           /\ login.page = 3 => login.passphrase_input # k
           /\ login.page # 0

\* the input the page shown by a wizard asks for is missing
RegInputMissing ==
    \/ reg.page = 0 /\ Strip(reg.username_input) = ""
    \/ reg.page = 1 /\ IsNone(reg.selected_image_path)
    \/ reg.page = 2 /\ IsNone(reg.secret)
    \/ reg.page = 3 /\ reg.passphrase_input = ""
LoginInputMissing ==
    \/ login.page = 0 /\ Strip(login.username_input) = ""
    \/ login.page = 1 /\ IsNone(login.selected_grid_image_path)
    \/ login.page = 2 /\ IsNone(login.clicked)
    \/ login.page = 3 /\ login.passphrase_input = ""

\* C20: in both wizards, Next pressed while the input of the current page is
\* missing (empty username, no image, no click, empty passphrase) leaves the
\* page index and every field of the wizard as they were, leaves the dialog
\* open, and leaves the user store and the files untouched; all it does is
\* show a warning.
C20_ValidationFailureChangesNothing ==
    [][ /\ (RegGoNext /\ RegInputMissing) =>
              /\ [reg' EXCEPT !.msg = NoMsg] = [reg EXCEPT !.msg = NoMsg]
              /\ reg'.msg.kind = "warning"
              /\ reg'.result = "open" /\ dialog' = "register"
              /\ user_db' = user_db /\ files' = files
        /\ (LoginGoNext /\ LoginInputMissing) =>
              /\ [login' EXCEPT !.msg = NoMsg] = [login EXCEPT !.msg = NoMsg]
              /\ login'.msg.kind = "warning"
              /\ login'.result = "open" /\ dialog' = "login"
              /\ user_db' = user_db /\ files' = files ]_vars

\* the login wizard warned on the passphrase page and still holds the
\* profile, the chosen image and the click collected on the pages before
C20_LoginWarnedOnPassphrasePage ==
    /\ dialog = "login" /\ login.result = "open" /\ login.page = 3
    /\ login.msg = Msg("warning", "Please enter your Stego-Key.")
    /\ login.passphrase_input = ""
    /\ ~IsNone(login.profile) /\ ~IsNone(login.selected_grid_image_path)
    /\ ~IsNone(login.clicked)

\* C25 (as claimed): the registration wizard is past the secret-spot page only
\* if a click was made on the image that page displays, and the coordinates a
\* finished registration stored come from a click on the image finally chosen.
C25_SpotGateClaimed ==
    /\ (dialog = "register" /\ reg.page = 3) =>
           (~IsNone(reg.secret) /\ reg.clicked_on = reg.spot_view)
    /\ (dialog = "register" /\ reg.result = "accepted") =>
           /\ reg.clicked_on = reg.selected_image_path
           /\ user_db[Val(reg.username)].secret_coordinates =
                 [x |-> Val(reg.secret)[1], y |-> Val(reg.secret)[2]]

\* C14 (as claimed): _spot_within_tolerance is the inclusive per-axis test: a
\* login is turned away at the spot step only if the click is more than 0.02
\* from the stored point on some axis (a click exactly 0.02 away on an axis
\* passes), and it gets past the spot step only if the click is within 0.02 on
\* both axes (a click 0.0201 away on either axis is turned away).
C14_ToleranceBoundaryClaimed ==
    /\ LoginRejectedWith("Login Failed! Wrong spot.") =>
          ~ExactlyWithinTol(Val(login.clicked), Val(login.profile).secret_coordinates)
    /\ (dialog = "login" /\ login.page = 3) =>
          ExactlyWithinTol(Val(login.clicked), Val(login.profile).secret_coordinates)

AuthenticationFailures ==
    {"Login Failed! Wrong image selected.", "Login Failed! Wrong spot.",
     "Login Failed! No hidden data.", "Login Failed! Wrong key."}

\* any handler of the open login dialog
LoginStep ==
    \/ LoginTypeUsername
    \/ LoginChooseGridImage
    \/ LoginSpotClicked
    \/ LoginTypePassphrase
    \/ LoginGoPrev
    \/ LoginGoNext

\* C8 (as claimed): every error the login dialog shows, the unknown-username
\* error of step 1 included, leaves the dialog rejected.
C8_EveryFailureRejectsClaimed ==
    (dialog = "login" /\ login.msg.kind = "critical") => login.result = "rejected"

\* C8 (amended): wrong image, wrong spot, no hidden data and wrong key each
\* show an error and leave the dialog rejected, and a rejected dialog takes no
\* further step; the unknown-username error leaves the dialog open on the
\* username page with no profile loaded.
C8_FailureOutcome ==
    dialog = "login" =>
        /\ login.msg.kind = "critical" =>
               IF login.msg.text \in AuthenticationFailures
               THEN login.result = "rejected"
               ELSE /\ login.msg.text = "User not found. Please register first."
                    /\ login.result = "open" /\ login.page = 0 /\ IsNone(login.profile)
        /\ login.result = "rejected" => ~ENABLED LoginStep

\* C8 witness: a login turned away at the last step because the stego image
\* carries no payload
C8_RejectedNoHiddenData == LoginRejectedWith("Login Failed! No hidden data.")

-----------------------------------------------------------------------------
(* Stego-2FA: two registrations inside save_user_profile at the same time  *)
(* (user_manager.py).  user_db is the document in user_data.json; proc     *)
(* holds the state of the file and, per process, its position in          *)
(* save_user_profile, the profile it saves and its local dict db.          *)

Procs == {1, 2}

\* load_user_db on a readable document: json.load returns what the file holds
load_user_db_fresh(document) == <<>>
load_user_db(document) == document

InitStore ==
    /\ user_db \in {<<>>, save_user_profile(<<>>, EarlierProfile)}
    /\ \E chosen \in [Procs ->
                        {UserProfile(u, StegoPath(u), [x |-> pt[1], y |-> pt[2]],
                                     SampleImages \ {<<"images", "a.png">>}) :
                            u \in Usernames, pt \in SecretPoints}] :
          proc = [file |-> "ok",
                  of |-> [p \in Procs |->
                            [pc |-> "call", profile |-> chosen[p], db |-> <<>>,
                             clobbered |-> FALSE, after |-> {}]]]

\* line 52, db = load_user_db(): json.load raises on a file another process
\* has truncated or left as an overlay of two documents
LoadUserDb ==
    /\ \E p \in Procs :
          /\ proc.of[p].pc = "call"
          /\ proc' = [proc EXCEPT
                !.of[p] = IF proc.file = "ok"
                          THEN [@ EXCEPT !.pc = "loaded", !.db = load_user_db(user_db),
                                         !.after = {q \in Procs : proc.of[q].pc = "done"}]
                          ELSE [@ EXCEPT !.pc = "raised JSONDecodeError"]]
    /\ UNCHANGED user_db
    /\ UNCHANGED otherThanStore

\* lines 53-57 and save_user_db up to USER_DB_FILE.open("w"): the entry is set in
\* the local dict and the file is truncated
SaveOpen ==
    /\ \E p \in Procs :
          /\ proc.of[p].pc = "loaded"
          /\ proc' = [proc EXCEPT
                !.file = "truncated",
                !.of[p] = [@ EXCEPT !.pc = "writing",
                                    !.db = save_user_profile(@, proc.of[p].profile)]]
    /\ user_db' = <<>>
    /\ UNCHANGED otherThanStore

\* json.dump and close: the local dict is written from offset 0.  If another
\* process wrote since this one opened the file, the result is this document
\* laid over that one: this document when it is at least as long, otherwise
\* not a JSON document
SaveDump ==
    /\ \E p \in Procs, overlay \in {"ok", "corrupt"} :
          /\ proc.of[p].pc = "writing"
          /\ overlay = "corrupt" => proc.of[p].clobbered
          /\ proc' = [file |-> overlay,
                      of |-> [q \in Procs |->
                                IF q = p
                                THEN [proc.of[p] EXCEPT !.pc = "done"]
                                ELSE IF proc.of[q].pc = "writing"
                                THEN [proc.of[q] EXCEPT !.clobbered = TRUE]
                                ELSE proc.of[q]]]
          /\ user_db' = IF overlay = "ok" THEN proc.of[p].db ELSE <<>>
    /\ UNCHANGED otherThanStore

NextStore ==
    \/ LoadUserDb
    \/ SaveOpen
    \/ SaveDump

\* Claims about the user store

BothSaved == \A p \in Procs : proc.of[p].pc = "done"
DifferentUsers == proc.of[1].profile.username # proc.of[2].profile.username
Stored(p) ==
    /\ proc.of[p].profile.username \in DOMAIN user_db
    /\ user_db[proc.of[p].profile.username] = ProfileData(proc.of[p].profile)
\* one call began after the other had returned
SequentialOrder == \E p \in Procs : proc.of[p].after # {}

\* C7: when two save_user_profile calls for different usernames have both
\* returned and the file is a document, then both profiles are stored if one
\* call ran after the other, and exactly one of them is stored (the last
\* writer's) if the calls overlapped, that is both loaded before either saved.
C7_LostUpdate ==
    (proc # <<>> /\ BothSaved /\ DifferentUsers /\ proc.file = "ok")
    => IF SequentialOrder
       THEN Stored(1) /\ Stored(2)
       ELSE Stored(1) # Stored(2)

\* C7 witness: both calls returned, they overlapped, and the first process's
\* profile is missing from the stored map
C7_UpdateLost ==
    /\ proc # <<>> /\ BothSaved /\ DifferentUsers /\ proc.file = "ok"
    /\ ~SequentialOrder
    /\ Stored(2) /\ ~Stored(1)

\* C21: a save_user_profile(P) call that began after the other call had
\* returned (so no writer ran during it) leaves the store with P's three
\* fields under P.username, whatever was stored there before, with every
\* other entry as the store held it when the call began, and get_user of
\* P.username then returns P.
C21_ProfilePersistence ==
    \A p \in Procs, q \in Procs :
        (/\ proc # <<>> /\ p # q
         /\ proc.of[p].pc = "done" /\ proc.of[q].pc = "done"
         /\ q \in proc.of[p].after)
        => LET P == proc.of[p].profile
               before == proc.of[q].db
           IN  /\ DOMAIN user_db = (DOMAIN before) \cup {P.username}
               /\ user_db[P.username] =
                     [stego_image_path |-> P.stego_image_path,
                      secret_coordinates |-> P.secret_coordinates,
                      decoy_images |-> P.decoy_images]
               /\ \A u \in (DOMAIN before) \ {P.username} : user_db[u] = before[u]
               /\ get_user(user_db, P.username) = Some(P)

\* the second call saved alice over the entry the first call had stored for
\* alice with another secret point, next to bob's earlier entry
C21_AliceReplacedBobKept ==
    /\ proc # <<>> /\ BothSaved /\ 1 \in proc.of[2].after
    /\ proc.of[1].profile.username = "alice" /\ proc.of[2].profile.username = "alice"
    /\ proc.of[1].profile.secret_coordinates # proc.of[2].profile.secret_coordinates
    /\ get_user(user_db, "bob") = Some(EarlierProfile)
    /\ get_user(user_db, "alice") = Some(proc.of[2].profile)

-----------------------------------------------------------------------------
(* Diffie-Hellman demo: app/crypto_utils.py and the JSON API of            *)
(* app/routes.py.  A JSON value is a record [t, n, s] (type, number,       *)
(* string); a string is its text or, for a Fernet token, the key and the   *)
(* plaintext it was made from.  The server keeps no state between          *)
(* requests: a behaviour is one request and its answer.                    *)

NoKey == [hkdf |-> -1, salt |-> <<0, 0>>]
PlainStr(text) == [text |-> text, key |-> NoKey, pt |-> ""]
TokenStr(key, pt) == [text |-> "gAAAAA", key |-> key, pt |-> pt]
JsonInt(n) == [t |-> "int", n |-> n, s |-> PlainStr("")]
JsonStr(text) == [t |-> "str", n |-> 0, s |-> PlainStr(text)]
JsonNull == [t |-> "null", n |-> 0, s |-> PlainStr("")]

\* int(value): raises for None and for a string that is no integer literal
ParseInt(j) == IF j.t = "int" THEN [ok |-> TRUE, v |-> j.n] ELSE [ok |-> FALSE, v |-> 0]

\* Python's a % m for any m # 0: the result has the sign of m
FloorMod(a, m) == IF m > 0 THEN PyMod(a, m) ELSE -PyMod(-a, -m)

\* a function call that returned v / raised the exception err
Ok(v) == [ok |-> TRUE, v |-> v, err |-> ""]
Raise(err) == [ok |-> FALSE, v |-> 0, err |-> err]

\* pow(base, exp, mod) of Python 3.8+
PyPow(base, exp, mod) ==
    IF mod = 0 THEN Raise("ValueError: pow() 3rd argument cannot be 0")
    ELSE IF exp >= 0 THEN Ok(FloorMod(IPow(base, exp), mod))
    ELSE IF Gcd(Abs(base), Abs(mod)) # 1
    THEN Raise("ValueError: base is not invertible for the given modulus")
    ELSE LET m == Abs(mod)
             inv == CHOOSE x \in 0..(m - 1) : PyMod(base * x, m) = PyMod(1, m)
         IN  Ok(FloorMod(IPow(inv, -exp), mod))

compute_public_key(g, private_key, p) == PyPow(g, private_key, p)
compute_shared_secret(other_public, private_key, p) == PyPow(other_public, private_key, p)

\* shared_secret.to_bytes(..., "big") raises for a negative number; HKDF and
\* base64 are one-to-one on (secret, salt)
derive_symmetric_key(shared_secret, p, g) ==
    IF shared_secret < 0
    THEN Raise("OverflowError: can't convert negative int to unsigned")
    ELSE [ok |-> TRUE, v |-> [hkdf |-> shared_secret, salt |-> <<p, g>>], err |-> ""]

\* message.encode() exists for a str only
encrypt_message(message, fernet_key) ==
    IF message.t # "str"
    THEN Raise("AttributeError: object has no attribute 'encode'")
    ELSE [ok |-> TRUE, v |-> [t |-> "str", n |-> 0, s |-> TokenStr(fernet_key, message.s.text)],
          err |-> ""]

\* Fernet.decrypt raises InvalidToken for a token made under another key and
\* for a string that is no token
decrypt_message(token, fernet_key) ==
    IF token.t # "str" THEN Raise("AttributeError: object has no attribute 'encode'")
    ELSE IF token.s.key # fernet_key THEN Raise("InvalidToken")
    ELSE [ok |-> TRUE, v |-> token.s.pt, err |-> ""]

\* a string that is no Fernet token (no key decrypts it)
GarbageToken == JsonStr("garbage")

\* the answers of a handler: jsonify(body) with a status, or an exception
\* that leaves the view function (Flask answers 500)
Answer(status, body) == [status |-> status, body |-> body]
ErrorAnswer(text) == Answer(400, [error |-> text])
Unhandled(err) == Answer(500, [exception |-> err])

\* the four int(data.get(...)) of a handler: all parsed, or an exception
ParsedInputs(p, g, a, b) ==
    IF \A j \in {p, g, a, b} : ParseInt(j).ok
    THEN Ok([p |-> ParseInt(p).v, g |-> ParseInt(g).v,
             a |-> ParseInt(a).v, b |-> ParseInt(b).v])
    ELSE Raise("TypeError or ValueError in int()")

\* /api/compute, from the zero test on
compute(in) ==
    LET A == compute_public_key(in.g, in.a, in.p)
        B == compute_public_key(in.g, in.b, in.p)
        s1 == compute_shared_secret(B.v, in.a, in.p)
        s2 == compute_shared_secret(A.v, in.b, in.p)
    IN  IF in.p = 0 \/ in.g = 0 \/ in.a = 0 \/ in.b = 0
        THEN ErrorAnswer("Missing one or more required fields: p, g, a, b.")
        ELSE IF ~A.ok THEN Unhandled(A.err)
        ELSE IF ~B.ok THEN Unhandled(B.err)
        ELSE IF ~s1.ok THEN Unhandled(s1.err)
        ELSE IF ~s2.ok THEN Unhandled(s2.err)
        ELSE Answer(200, [A |-> A.v, B |-> B.v, s1 |-> s1.v, s2 |-> s2.v,
                          match |-> (s1.v = s2.v)])

\* SharedKey with each party raising its OWN public key to its private key
SharedKeyOfOwnPublic(party, in) ==
    LET A == compute_public_key(in.g, in.a, in.p)
        B == compute_public_key(in.g, in.b, in.p)
        shared == IF party = "alice" THEN compute_shared_secret(A.v, in.a, in.p)
                                     ELSE compute_shared_secret(B.v, in.b, in.p)
        fkey == derive_symmetric_key(shared.v, in.p, in.g)
    IN  IF ~A.ok THEN Raise(A.err)
        ELSE IF ~B.ok THEN Raise(B.err)
        ELSE IF ~shared.ok THEN Raise(shared.err)
        ELSE IF ~fkey.ok THEN Raise(fkey.err)
        ELSE Ok([shared |-> shared.v, fkey |-> fkey.v])

\* the part /api/encrypt and /api/decrypt share: both public keys, the
\* party's shared secret and the Fernet key derived from it
SharedKey(party, in) ==
    LET A == compute_public_key(in.g, in.a, in.p)
        B == compute_public_key(in.g, in.b, in.p)
        shared == IF party = "alice" THEN compute_shared_secret(B.v, in.a, in.p)
                                     ELSE compute_shared_secret(A.v, in.b, in.p)
        fkey == derive_symmetric_key(shared.v, in.p, in.g)
    IN  IF ~A.ok THEN Raise(A.err)
        ELSE IF ~B.ok THEN Raise(B.err)
        ELSE IF ~shared.ok THEN Raise(shared.err)
        ELSE IF ~fkey.ok THEN Raise(fkey.err)
        ELSE Ok([shared |-> shared.v, fkey |-> fkey.v])

api_encrypt(in, sender, message) ==
    LET k == SharedKey(sender.s.text, in)
        enc == encrypt_message(message, k.v.fkey)
    IN  IF sender \notin {JsonStr("alice"), JsonStr("bob")}
        THEN ErrorAnswer("sender must be 'alice' or 'bob'")
        ELSE IF ~k.ok THEN Unhandled(k.err)
        ELSE IF ~enc.ok THEN Unhandled(enc.err)
        ELSE Answer(200, [ciphertext |-> enc.v, shared_secret |-> k.v.shared])

api_decrypt(in, recipient, ciphertext) ==
    LET k == SharedKey(recipient.s.text, in)
        plaintext == decrypt_message(ciphertext, k.v.fkey)
    IN  IF recipient \notin {JsonStr("alice"), JsonStr("bob")}
        THEN ErrorAnswer("recipient must be 'alice' or 'bob'")
        ELSE IF ~k.ok THEN Unhandled(k.err)
        ELSE IF ~plaintext.ok THEN ErrorAnswer("Decryption failed. Check keys and ciphertext.")
        ELSE Answer(200, [plaintext |-> plaintext.v, shared_secret |-> k.v.shared])

\* the requests a client sends: a JSON object with p, g, a, b (null: the field
\* is missing, so data.get returns None) and, for the two message endpoints,
\* the party and the message or ciphertext.  A ciphertext is
\* what /api/encrypt answers the other party for the same p, g, a, b and one
\* of the messages "hi" and "" (the default of data.get("message", "")), or a
\* string that is no token, or a number
SentMessages == {JsonStr("hi"), JsonStr("")}
Request(endpoint, p, g, a, b, party, text) ==
    [endpoint |-> endpoint, p |-> p, g |-> g, a |-> a, b |-> b,
     party |-> party, text |-> text]
CiphertextsFor(p, g, a, b, recipient) ==
    LET in == ParsedInputs(p, g, a, b)
        sent(message) == api_encrypt(in.v, (IF recipient.s.text = "alice" THEN JsonStr("bob") ELSE JsonStr("alice")), message)
    IN  {GarbageToken, JsonInt(5)} \cup
        (IF in.ok /\ recipient.t = "str"
         THEN {sent(message).body.ciphertext :
                  message \in {m \in SentMessages : sent(m).status = 200}}
         ELSE {})
Requests ==
    LET ModulusValues == {JsonInt(n) : n \in {-5, 0, 1, 4, 5, 7}} \cup {JsonNull, JsonStr("x")}
        BaseValues == {JsonInt(n) : n \in {-2, 0, 2, 3}}
        ExponentValues == {JsonInt(n) : n \in {-1, 0, 1, 2, 3}} \cup {JsonNull}
        PartyValues == {JsonStr("alice"), JsonStr("bob"), JsonNull}
        MessageValues == SentMessages \cup {JsonInt(5)}
    IN
    UNION {
      {Request("/api/compute", p, g, a, b, JsonNull, JsonNull)}
      \cup {Request("/api/encrypt", p, g, a, b, sender, message) :
               sender \in PartyValues, message \in MessageValues}
      \cup UNION {{Request("/api/decrypt", p, g, a, b, recipient, ciphertext) :
                     ciphertext \in CiphertextsFor(p, g, a, b, recipient)} :
                  recipient \in PartyValues}
      : p \in ModulusValues, g \in BaseValues, a \in ExponentValues, b \in ExponentValues }

NotAnswered == Answer(0, [error |-> ""])

InitDH == dh_request \in Requests /\ dh_response = NotAnswered

\* @bp.post("/api/compute")
PostCompute ==
    /\ dh_request.endpoint = "/api/compute" /\ dh_response = NotAnswered
    /\ LET in == ParsedInputs(dh_request.p, dh_request.g, dh_request.a, dh_request.b)
       IN  dh_response' = IF ~in.ok
                          THEN ErrorAnswer("Invalid inputs. p, g, a, b must be integers.")
                          ELSE compute(in.v)
    /\ UNCHANGED dh_request
    /\ UNCHANGED otherThanDH

\* @bp.post("/api/encrypt")
PostEncrypt ==
    /\ dh_request.endpoint = "/api/encrypt" /\ dh_response = NotAnswered
    /\ LET in == ParsedInputs(dh_request.p, dh_request.g, dh_request.a, dh_request.b)
       IN  dh_response' = IF ~in.ok THEN ErrorAnswer("Invalid inputs.")
                          ELSE api_encrypt(in.v, dh_request.party, dh_request.text)
    /\ UNCHANGED dh_request
    /\ UNCHANGED otherThanDH

\* @bp.post("/api/decrypt")
PostDecrypt ==
    /\ dh_request.endpoint = "/api/decrypt" /\ dh_response = NotAnswered
    /\ LET in == ParsedInputs(dh_request.p, dh_request.g, dh_request.a, dh_request.b)
       IN  dh_response' = IF ~in.ok THEN ErrorAnswer("Invalid inputs.")
                          ELSE api_decrypt(in.v, dh_request.party, dh_request.text)
    /\ UNCHANGED dh_request
    /\ UNCHANGED otherThanDH

NextDH ==
    \/ PostCompute
    \/ PostEncrypt
    \/ PostDecrypt

\* Claims about the Diffie-Hellman API

Answered(endpoint) == dh_request.endpoint = endpoint /\ dh_response # NotAnswered

\* the request carried four integers, none of them zero
AcceptedByComputeValidation ==
    \A f \in {"p", "g", "a", "b"} : dh_request[f].t = "int" /\ dh_request[f].n # 0

\* C4 (as claimed): every /api/compute request whose p, g, a, b are non-zero
\* integers is answered 200 with match = true (both parties' shared secrets
\* are computed and are equal).
C4_AgreementClaimed ==
    (Answered("/api/compute") /\ AcceptedByComputeValidation)
    => dh_response.status = 200 /\ dh_response.body.match

\* C19: whenever /api/encrypt answers alice 200 for p, g, a, b and a message,
\* /api/decrypt as bob for the same p, g, a, b and the returned ciphertext
\* answers 200 with that message as plaintext and with the shared_secret the
\* encrypt answer reported.
C19_EncryptDecryptRoundTrip ==
    \A message \in SentMessages :
        LET in == ParsedInputs(dh_request.p, dh_request.g, dh_request.a, dh_request.b)
            sent == api_encrypt(in.v, JsonStr("alice"), message)
        IN  (/\ Answered("/api/decrypt") /\ dh_request.party = JsonStr("bob")
             /\ in.ok /\ sent.status = 200
             /\ dh_request.text = sent.body.ciphertext)
            => /\ dh_response.status = 200
               /\ dh_response.body.plaintext = message.s.text
               /\ dh_response.body.shared_secret = sent.body.shared_secret

\* bob decrypted what alice sent under p = 7, g = 3, a = -1, b = 3: alice's
\* exponent is negative, the secret both hold is 6
C19_BobReadsAliceUnderNegativeExponent ==
    /\ Answered("/api/decrypt") /\ dh_request.party = JsonStr("bob")
    /\ dh_request.p = JsonInt(7) /\ dh_request.g = JsonInt(3)
    /\ dh_request.a = JsonInt(-1) /\ dh_request.b = JsonInt(3)
    /\ dh_request.text = api_encrypt([p |-> 7, g |-> 3, a |-> -1, b |-> 3],
                                     JsonStr("alice"), JsonStr("hi")).body.ciphertext
    /\ dh_response = Answer(200, [plaintext |-> "hi", shared_secret |-> 6])

\* C10 (as claimed): every request to the three endpoints, whatever p, g, a
\* and b are, is answered with status 200 or 400.
C10_StatusTotalityClaimed ==
    dh_response # NotAnswered => dh_response.status \in {200, 400}

-----------------------------------------------------------------------------
(* Caesar + Hill hybrid cipher (cypher.py).  hybrid holds the message and  *)
(* shift the caller chose and what hybrid_encrypt and hybrid_decrypt       *)
(* returned for them.                                                      *)

MaxMessageLen == 3
\* messages over the characters A, Z, b, space and 1
Messages == SeqsUpTo({65, 90, 98, 32, 49}, MaxMessageLen)
Shifts == 1..25

\* key_matrix = np.array([[3, 3], [2, 5]])
key_matrix == Mat(3, 3, 2, 5)

caesar_encrypt(text, shift) ==
    [k \in 1..Len(text) |->
        IF IsAlpha(Upper(text[k]))
        THEN PyMod(Upper(text[k]) - 65 + shift, 26) + 65
        ELSE Upper(text[k])]
caesar_decrypt(cipher, shift) == caesar_encrypt(cipher, -shift)

\* np.dot(matrix, block) % 26 over the blocks of two numbers
HillBlocks(M, numbers) ==
    [k \in 1..Len(numbers) |->
        LET b == 2 * ((k - 1) \div 2)
        IN  PyMod(M[k - b][1] * numbers[b + 1] + M[k - b][2] * numbers[b + 2], 26)]

hill_encrypt(text, K) ==
    LET numbers == [k \in 1..Len(text) |-> Upper(text[k]) - 65]
        padded == IF Len(numbers) % 2 # 0 THEN Append(numbers, 25) ELSE numbers
    IN  [k \in 1..Len(padded) |-> HillBlocks(K, padded)[k] + 65]

\* det_inv * round(det * inv(key_matrix)) % 26: the adjugate times the inverse
\* of the determinant mod 26
matrix_mod_inv(K) ==
    LET det_inv == PyPow(Det2(K), -1, 26).v
    IN  Mat(PyMod(det_inv * K[2][2], 26), PyMod(-det_inv * K[1][2], 26),
            PyMod(-det_inv * K[2][1], 26), PyMod(det_inv * K[1][1], 26))

hill_decrypt(cipher, K) ==
    LET numbers == [k \in 1..Len(cipher) |-> Upper(cipher[k]) - 65]
    IN  [k \in 1..Len(numbers) |-> HillBlocks(matrix_mod_inv(K), numbers)[k] + 65]

hybrid_encrypt(message, shift, K) ==
    LET caesar_out == caesar_encrypt(message, shift)
    IN  <<caesar_out, hill_encrypt(caesar_out, K)>>
hybrid_decrypt(cipher, shift, K) ==
    LET hill_out == hill_decrypt(cipher, K)
    IN  <<hill_out, caesar_decrypt(hill_out, shift)>>

InitHybrid ==
    \E message \in Messages, shift \in Shifts :
        hybrid = [message |-> message, shift |-> shift, stage |-> "input",
                  encrypted |-> <<<<>>, <<>>>>, decrypted |-> <<<<>>, <<>>>>]

HybridEncrypt ==
    /\ hybrid.stage = "input"
    /\ hybrid' = [hybrid EXCEPT
                    !.stage = "encrypted",
                    !.encrypted = hybrid_encrypt(hybrid.message, hybrid.shift, key_matrix)]
    /\ UNCHANGED otherThanHybrid

\* the caller passes the hybrid output, element [1] of hybrid_encrypt's result
HybridDecrypt ==
    /\ hybrid.stage = "encrypted"
    /\ hybrid' = [hybrid EXCEPT
                    !.stage = "decrypted",
                    !.decrypted = hybrid_decrypt(hybrid.encrypted[2], hybrid.shift, key_matrix)]
    /\ UNCHANGED otherThanHybrid

NextHybrid ==
    \/ HybridEncrypt
    \/ HybridDecrypt

\* Claims about the hybrid cipher

RECURSIVE AlphabeticUpper(_)
AlphabeticUpper(text) ==
    IF text = <<>> THEN <<>>
    ELSE IF IsAlpha(Head(text)) THEN <<Upper(Head(text))>> \o AlphabeticUpper(Tail(text))
    ELSE AlphabeticUpper(Tail(text))
PaddedWithZ(text) == IF Len(text) % 2 # 0 THEN Append(text, 90) ELSE text

\* C5 (as claimed): for every message and every shift in 1..25, the second
\* element of hybrid_decrypt applied to the hybrid output of hybrid_encrypt is
\* the message uppercased, reduced to its letters and padded with Z to even
\* length.
C5_RoundTripClaimed ==
    hybrid.stage = "decrypted"
    => hybrid.decrypted[2] = PaddedWithZ(AlphabeticUpper(hybrid.message))

-----------------------------------------------------------------------------
(* Tower of Babel: the block-permutation layer of crypto_utils.py.  bytes  *)
(* are sequences of byte values; babel holds the ciphertext, the SHA-256   *)
(* digests the chosen key and iv give to the block indices, and what       *)
(* obfuscate_ciphertext_blocks and deobfuscate_ciphertext_blocks returned. *)

MaxBabelBlocks == 3
\* block_size = 16 of _split_blocks
BabelBlockSize == 16

\* b"".join(blocks)
RECURSIVE join_blocks(_)
join_blocks(blocks) ==
    IF blocks = <<>> THEN <<>> ELSE Head(blocks) \o join_blocks(Tail(blocks))

\* [data[i : i + block_size] for i in range(0, len(data), block_size)]
split_blocks(data) ==
    [k \in 1..(Len(data) \div BabelBlockSize) |->
        SubSeq(data, (k - 1) * BabelBlockSize + 1, k * BabelBlockSize)]

\* the ciphertexts: every sequence of up to MaxBabelBlocks blocks of the pool
\* (AES-CBC output is block aligned), and one that is not aligned
BabelCiphertexts ==
    LET BlockPool == {[k \in 1..BabelBlockSize |-> 0], [k \in 1..BabelBlockSize |-> k],
                      [k \in 1..BabelBlockSize |-> 255]}
    IN  {join_blocks(bs) : bs \in SeqsUpTo(BlockPool, MaxBabelBlocks)} \cup {<<7>>}

\* SHA256(key || iv || i) for the chosen key and iv, as the rank of the digest
\* among the digests: any assignment can arise, equal digests included

\* scores.sort(key=lambda t: t[0]) is stable: index i comes before j when its
\* digest is smaller, or equal with i < j.  perm is a list of 0-based indices
deterministic_permutation(digest, n) ==
    LET Before(i, j) == digest[i] < digest[j] \/ (digest[i] = digest[j] /\ i < j)
        Rank(i) == Cardinality({j \in 0..(n - 1) : Before(j, i)})
    IN  [k \in 1..n |-> CHOOSE i \in 0..(n - 1) : Rank(i) = k - 1]

obfuscate_ciphertext_blocks(digest, ciphertext) ==
    LET blocks == split_blocks(ciphertext)
        n == Len(blocks)
        perm == deterministic_permutation(digest, n)
    IN  <<join_blocks([k \in 1..n |-> blocks[perm[k] + 1]]), perm>>

\* using perm itself where its inverse is needed
perm_as_inverse(perm) == [src_idx \in 0..(Len(perm) - 1) |-> perm[src_idx + 1]]
\* inv = [0] * n; for new_pos, src_idx in enumerate(perm): inv[src_idx] = new_pos
inverse_permutation(perm) ==
    [src_idx \in 0..(Len(perm) - 1) |->
        LET at == {new_pos \in 0..(Len(perm) - 1) : perm[new_pos + 1] = src_idx}
        IN  IF at = {} THEN 0 ELSE CHOOSE new_pos \in at : \A q \in at : q <= new_pos]

\* returning the blocks in the order received, the inverse never applied
deobfuscate_without_inverse(digest, permuted_ciphertext, perm) == permuted_ciphertext
\* deobfuscate_ciphertext_blocks(key, iv, permuted_ciphertext, perm), for
\* arguments on which it returns; digest stands for its key and iv, as in
\* obfuscate_ciphertext_blocks
deobfuscate_ciphertext_blocks(digest, permuted_ciphertext, perm) ==
    LET obf_blocks == split_blocks(permuted_ciphertext)
        n == Len(obf_blocks)
        inv == inverse_permutation(perm)
    IN  join_blocks([orig_index \in 1..n |-> obf_blocks[inv[orig_index - 1] + 1]])

\* refusing a permutation other than the one the key and iv give
deobfuscate_checking_derivation(digest, permuted_ciphertext, perm) ==
    LET n == Len(permuted_ciphertext) \div BabelBlockSize
    IN  IF perm # deterministic_permutation(digest, n)
        THEN [ok |-> FALSE, v |-> <<>>, err |-> "Permutation mismatch"]
        ELSE [ok |-> TRUE, err |-> "",
              v |-> deobfuscate_ciphertext_blocks(digest, permuted_ciphertext, perm)]
\* the whole call: the two assertions, the IndexError of inv[src_idx] = new_pos
\* for an index past the end, or the bytes returned
deobfuscate_outcome(digest, permuted_ciphertext, perm) ==
    LET n == Len(permuted_ciphertext) \div BabelBlockSize
    IN  IF Len(permuted_ciphertext) % BabelBlockSize # 0
        THEN [ok |-> FALSE, v |-> <<>>, err |-> "Ciphertext not aligned to block size"]
        ELSE IF n # Len(perm)
        THEN [ok |-> FALSE, v |-> <<>>, err |-> "Permutation mismatch"]
        ELSE IF \E k \in 1..n : perm[k] >= n
        THEN [ok |-> FALSE, v |-> <<>>,
              err |-> "IndexError: list assignment index out of range"]
        ELSE [ok |-> TRUE, err |-> "",
              v |-> deobfuscate_ciphertext_blocks(digest, permuted_ciphertext, perm)]

\* the keys and ivs of a later call, by the digests they give: all equal
\* (indices stay in order), or falling (indices reversed)
LaterDigests ==
    { [i \in 0..(MaxBabelBlocks - 1) |-> 0],
      [i \in 0..(MaxBabelBlocks - 1) |-> MaxBabelBlocks - 1 - i] }
\* the lists a caller passes as perm: the one returned, its reverse, the
\* identity, one index repeated, one entry short, one index past the end
PermArguments(perm) ==
    LET n == Len(perm)
    IN  { perm, [k \in 1..n |-> perm[n + 1 - k]], [k \in 1..n |-> k - 1],
          [k \in 1..n |-> 0] }
          \cup (IF n = 0 THEN {}
                ELSE { SubSeq(perm, 2, n), [k \in 1..n |-> IF k = 1 THEN n ELSE perm[k]] })

InitBabel ==
    \E ciphertext \in BabelCiphertexts,
       digest \in [0..(MaxBabelBlocks - 1) -> 0..(MaxBabelBlocks - 1)] :
        babel = [ciphertext |-> ciphertext, digest |-> digest, stage |-> "input",
                 obfuscated |-> <<>>, perm |-> <<>>, restored |-> <<>>,
                 with_digest |-> <<>>, with_perm |-> <<>>,
                 outcome |-> [ok |-> FALSE, v |-> <<>>, err |-> "not called"]]

\* obfuscate_ciphertext_blocks(key, iv, ciphertext); _split_blocks asserts
\* that the length is a multiple of the block size
Obfuscate ==
    /\ babel.stage = "input"
    /\ babel' =
          IF Len(babel.ciphertext) % BabelBlockSize # 0
          THEN [babel EXCEPT !.stage = "AssertionError"]
          ELSE LET r == obfuscate_ciphertext_blocks(babel.digest, babel.ciphertext)
               IN  [babel EXCEPT !.stage = "obfuscated", !.obfuscated = r[1], !.perm = r[2]]
    /\ UNCHANGED otherThanBabel

\* deobfuscate_ciphertext_blocks(key, iv, C', perm) on what Obfuscate returned
Deobfuscate ==
    /\ babel.stage = "obfuscated"
    /\ babel' = [babel EXCEPT
                   !.stage = "deobfuscated",
                   !.restored = deobfuscate_ciphertext_blocks(babel.digest, babel.obfuscated,
                                                              babel.perm)]
    /\ UNCHANGED otherThanBabel

\* deobfuscate_ciphertext_blocks(key2, iv2, C', perm2): a later call with a
\* key and iv, and a list, of the caller's choice
DeobfuscateWith ==
    /\ babel.stage = "obfuscated"
    /\ \E digest \in LaterDigests, perm \in PermArguments(babel.perm) :
          babel' = [babel EXCEPT
                      !.stage = "deobfuscated with",
                      !.with_digest = digest, !.with_perm = perm,
                      !.outcome = deobfuscate_outcome(digest, babel.obfuscated, perm)]
    /\ UNCHANGED otherThanBabel

NextBabel ==
    \/ Obfuscate
    \/ Deobfuscate

\* a ciphertext obfuscated under one of three keys and ivs (the two of
\* LaterDigests and one that rotates the indices), then handed to
\* deobfuscate_ciphertext_blocks with a key, an iv and a list of any origin
InitLater ==
    \E ciphertext \in BabelCiphertexts,
       digest \in LaterDigests
                    \cup { [i \in 0..(MaxBabelBlocks - 1) |->
                              (i + MaxBabelBlocks - 1) % MaxBabelBlocks] } :
        babel = [ciphertext |-> ciphertext, digest |-> digest, stage |-> "input",
                 obfuscated |-> <<>>, perm |-> <<>>, restored |-> <<>>,
                 with_digest |-> <<>>, with_perm |-> <<>>,
                 outcome |-> [ok |-> FALSE, v |-> <<>>, err |-> "not called"]]

NextLater ==
    \/ Obfuscate
    \/ DeobfuscateWith

\* Claims about the obfuscation layer

IsPermutationOfIndices(perm) ==
    \A i \in 0..(Len(perm) - 1) : Cardinality({k \in 1..Len(perm) : perm[k] = i}) = 1

\* C6: for every ciphertext of whole 16-byte blocks (the empty one and ones
\* with repeated blocks included) and every key and iv, the permutation
\* obfuscate_ciphertext_blocks returns is a bijection on the block indices and
\* deobfuscate_ciphertext_blocks applied to its result returns the ciphertext.
C6_ObfuscationRoundTrip ==
    /\ babel.stage \in {"obfuscated", "deobfuscated"} =>
          /\ Len(babel.perm) * BabelBlockSize = Len(babel.ciphertext)
          /\ IsPermutationOfIndices(babel.perm)
    /\ babel.stage = "deobfuscated" => babel.restored = babel.ciphertext

\* C6 witness: three blocks, two of them equal, permuted by a 3-cycle (a
\* permutation that is not its own inverse), and restored
C6_ThreeCycleRestored ==
    /\ babel.stage = "deobfuscated"
    /\ babel.perm = <<1, 2, 0>>
    /\ split_blocks(babel.ciphertext)[1] = split_blocks(babel.ciphertext)[3]
    /\ split_blocks(babel.ciphertext)[1] # split_blocks(babel.ciphertext)[2]
    /\ babel.obfuscated # babel.ciphertext

\* C29: what deobfuscate_ciphertext_blocks does with a permuted ciphertext
\* and a list perm is the same under every key and iv; when perm is a
\* permutation of the block indices, whether or not it is the one the key and
\* iv give, the call raises nothing and block perm[k] of its result is block k
\* of the permuted ciphertext.
C29_KeyAndIvIgnored ==
    babel.stage = "deobfuscated with" =>
        LET n == Len(babel.obfuscated) \div BabelBlockSize
            perm == babel.with_perm
        IN  /\ \A digest \in [0..(MaxBabelBlocks - 1) -> 0..(MaxBabelBlocks - 1)] :
                  deobfuscate_outcome(digest, babel.obfuscated, perm) = babel.outcome
            /\ (Len(perm) = n /\ IsPermutationOfIndices(perm)) =>
                  /\ babel.outcome.ok
                  /\ Len(babel.outcome.v) = Len(babel.obfuscated)
                  /\ \A k \in 1..n :
                        split_blocks(babel.outcome.v)[perm[k] + 1]
                          = split_blocks(babel.obfuscated)[k]

\* C29 witness: three distinct blocks, permuted by a 3-cycle, are handed back
\* with the reversed list and a key and iv that would give another order; the
\* call returns, and returns bytes that are not the ciphertext
C29_ForeignPermutationApplied ==
    /\ babel.stage = "deobfuscated with"
    /\ babel.perm = <<1, 2, 0>>
    /\ babel.with_perm = <<0, 2, 1>>
    /\ deterministic_permutation(babel.with_digest, 3) \notin {babel.perm, babel.with_perm}
    /\ babel.outcome.ok
    /\ babel.outcome.v # babel.ciphertext
    /\ babel.outcome.v # babel.obfuscated

-----------------------------------------------------------------------------
(* Crack Time Estimator: Crack Time Estimator-1OX22CS071,1OX22CS094/app.py *)
(* A duration in seconds is a float; the model counts it in tenths of a    *)
(* second, so that int(seconds) has a fraction to drop.  The texts         *)
(* format_seconds returns are TLA+ strings.                                *)

\* Bound: the longest password handed to estimate_entropy_bits
MaxPasswordLen == 4
\* Bound: the largest count of each unit in the durations handed to format_seconds
MaxUnitCount == 2

\* specials = set(" !\"#$%&'()*+,-./:;<=>?@[\\]^_`{|}~"), as character codes
specials == (32..47) \cup (58..64) \cup (91..96) \cup (123..126)

\* estimate_entropy_bits(password): the float len(password) * log2(charset_size),
\* kept as its two factors (0.0 for the empty password is 0 * log2(1))
estimate_entropy_bits(password) ==
    IF password = <<>> THEN [length |-> 0, charset_size |-> 1]
    ELSE LET AnyChar(P(_)) == \E k \in 1..Len(password) : P(password[k])
             IsLower(c) == 97 <= c /\ c <= 122
             IsUpper(c) == 65 <= c /\ c <= 90
             IsDigit(c) == 48 <= c /\ c <= 57
             IsSymbol(c) == c \in specials
             has_lower == AnyChar(IsLower)
             has_upper == AnyChar(IsUpper)
             has_digits == AnyChar(IsDigit)
             has_symbols == AnyChar(IsSymbol)
             charset_size == (IF has_lower THEN 26 ELSE 0) + (IF has_upper THEN 26 ELSE 0)
                             + (IF has_digits THEN 10 ELSE 0)
                             + (IF has_symbols THEN Cardinality(specials) ELSE 0)
         IN  [length |-> Len(password),
              charset_size |-> IF charset_size > 1 THEN charset_size ELSE 1]

\* units of format_seconds, largest first
units ==
    <<[unit_seconds |-> 365 * 24 * 3600, name |-> "year"],
      [unit_seconds |-> 30 * 24 * 3600, name |-> "month"],
      [unit_seconds |-> 7 * 24 * 3600, name |-> "week"],
      [unit_seconds |-> 24 * 3600, name |-> "day"],
      [unit_seconds |-> 3600, name |-> "hour"],
      [unit_seconds |-> 60, name |-> "minute"],
      [unit_seconds |-> 1, name |-> "second"]>>

\* f"{qty} {name}{'s' if qty != 1 else ''}"
PartText(qty, name) == ToString(qty) \o " " \o name \o (IF qty # 1 THEN "s" ELSE "")

\* the loop of format_seconds from unit k on, leaving it once max_parts parts
\* are collected
RECURSIVE UnitLoop(_, _, _, _)
UnitLoop(k, remaining, parts, max_parts) ==
    IF k > Len(units) THEN parts
    ELSE LET unit_seconds == units[k].unit_seconds
             qty == remaining \div unit_seconds
             taken == remaining >= unit_seconds
             parts1 == IF taken THEN Append(parts, PartText(qty, units[k].name)) ELSE parts
             remaining1 == IF taken THEN remaining - qty * unit_seconds ELSE remaining
         IN  IF Len(parts1) >= max_parts THEN parts1
             ELSE UnitLoop(k + 1, remaining1, parts1, max_parts)

\* ", ".join(parts)
RECURSIVE JoinParts(_)
JoinParts(parts) ==
    IF Len(parts) = 1 THEN parts[1] ELSE parts[1] \o ", " \o JoinParts(Tail(parts))

FormatParts(tenths, max_parts) ==
    IF tenths < 10 THEN "< 1s"
    ELSE LET parts == UnitLoop(1, tenths \div 10, <<>>, max_parts)
         IN  IF parts = <<>> THEN "< 1s" ELSE JoinParts(parts)

\* a format_seconds whose loop never breaks: it lists every unit that fits
format_seconds_every_unit(tenths) == FormatParts(tenths, Len(units) + 1)
\* format_seconds(seconds): the loop breaks once len(parts) >= 2
format_seconds(tenths) == FormatParts(tenths, 2)

\* the passwords: 'a', 'Z', '5', '!', ' ' and a tab, which is in no class
Passwords == SeqsUpTo({97, 90, 53, 33, 32, 9}, MaxPasswordLen)

\* the durations, in tenths of a second: up to MaxUnitCount of each unit, with
\* and without half a second more, and 90 s, 45 s, 13 months and -0.5 s
Durations ==
    LET Counts == [1..Len(units) -> 0..MaxUnitCount]
        RECURSIVE Total(_, _)
        Total(c, k) == IF k = 0 THEN 0 ELSE c[k] * units[k].unit_seconds + Total(c, k - 1)
        Whole == {Total(c, Len(units)) : c \in Counts} \cup {90, 45, 395 * 24 * 3600}
    IN  {10 * w + f : w \in Whole, f \in {0, 5}} \cup {-5}

InitCrack ==
    \/ \E password \in Passwords :
          crack = [pending |-> "estimate_entropy_bits", password |-> password,
                   seconds |-> 0, entropy_bits |-> [length |-> 0, charset_size |-> 1],
                   text |-> ""]
    \/ \E seconds \in Durations :
          crack = [pending |-> "format_seconds", password |-> <<>>,
                   seconds |-> seconds, entropy_bits |-> [length |-> 0, charset_size |-> 1],
                   text |-> ""]

EstimateEntropyBits ==
    /\ crack.pending = "estimate_entropy_bits"
    /\ crack' = [crack EXCEPT !.pending = "returned estimate_entropy_bits",
                              !.entropy_bits = estimate_entropy_bits(crack.password)]
    /\ UNCHANGED otherThanCrack

FormatSeconds ==
    /\ crack.pending = "format_seconds"
    /\ crack' = [crack EXCEPT !.pending = "returned format_seconds",
                              !.text = format_seconds(crack.seconds)]
    /\ UNCHANGED otherThanCrack

NextCrack ==
    \/ EstimateEntropyBits
    \/ FormatSeconds

\* Claims about the Crack Time Estimator

\* the password has a lowercase letter, an uppercase letter, a digit and a
\* character of the symbol set
UsesAllFourClasses(password) ==
    /\ \E k \in 1..Len(password) : 97 <= password[k] /\ password[k] <= 122
    /\ \E k \in 1..Len(password) : 65 <= password[k] /\ password[k] <= 90
    /\ \E k \in 1..Len(password) : 48 <= password[k] /\ password[k] <= 57
    /\ \E k \in 1..Len(password) : password[k] \in specials

\* C11: for every password with a lowercase letter, an uppercase letter, a
\* digit and a symbol, estimate_entropy_bits assumes a charset of
\* 26 + 26 + 10 + 32 = 94 characters, so it returns length x log2(94).
C11_CharsetSizeClaimed ==
    (crack.pending = "returned estimate_entropy_bits" /\ UsesAllFourClasses(crack.password)) =>
        crack.entropy_bits = [length |-> Len(crack.password), charset_size |-> 94]

\* the unit the greedy decomposition takes from r >= 1 seconds: the largest
\* one not exceeding r
LargestUnit(r) ==
    CHOOSE k \in 1..Len(units) :
        /\ units[k].unit_seconds <= r
        /\ \A j \in 1..Len(units) :
              units[j].unit_seconds <= r => units[j].unit_seconds <= units[k].unit_seconds

GreedyPart(r) ==
    LET count == r \div units[LargestUnit(r)].unit_seconds
    IN  ToString(count) \o " " \o units[LargestUnit(r)].name \o (IF count = 1 THEN "" ELSE "s")

GreedyText(r) ==
    LET rest == r % units[LargestUnit(r)].unit_seconds
    IN  IF rest = 0 THEN GreedyPart(r) ELSE GreedyPart(r) \o ", " \o GreedyPart(rest)

\* C12: format_seconds returns "< 1s" for seconds < 1; for seconds >= 1 it
\* returns at most two parts, the count of the largest unit not exceeding
\* int(seconds) and then the count of the largest unit not exceeding the
\* remainder, each plural exactly when its count is not 1; 90 gives
\* "1 minute, 30 seconds", 90000 gives "1 day, 1 hour", and the result is
\* never "< 1s" for seconds >= 1.
C12_FormatSeconds ==
    crack.pending = "returned format_seconds" =>
        /\ crack.seconds < 10 => crack.text = "< 1s"
        /\ crack.seconds >= 10 =>
              /\ crack.text = GreedyText(crack.seconds \div 10)
              /\ crack.text # "< 1s"
        /\ crack.seconds = 900 => crack.text = "1 minute, 30 seconds"
        /\ crack.seconds = 900000 => crack.text = "1 day, 1 hour"

\* C12 witness: a duration of 2 years, 2 months, 1 week and more with a
\* fraction, formatted as its two largest units only
C12_TwoLargestUnits ==
    /\ crack.pending = "returned format_seconds"
    /\ crack.seconds = 10 * (2 * 365 * 24 * 3600 + 2 * 30 * 24 * 3600 + 7 * 24 * 3600 + 61) + 5
    /\ crack.text = "2 years, 2 months"

-----------------------------------------------------------------------------
(* Tower of Babel: keys, certificates and AES (towerofbabel2/crypto_utils.py) *)
(* A small cyclic group stands for the curve SECP256R1: a private key is   *)
(* an exponent, the public key the power of the generator, ECDH the power  *)
(* of the peer's public key.  An ECDSA signature is the pair of its signer *)
(* and the signed bytes; it verifies under the signer's public key for     *)
(* these bytes and for no others.  ConcatKDF and SHA-256 are one-to-one    *)
(* constructors.  An AES block is sixteen bytes that each name the key,    *)
(* the plaintext block and the chain of blocks before it.                  *)

Curve == [p |-> 23, g |-> 5]

\* private_key.exchange(ec.ECDH(), peer_public_key)
exchange(private_key, peer_public_key) ==
    LET RECURSIVE Power(_, _)
        Power(b, e) == IF e = 0 THEN 1 ELSE (b * Power(b, e - 1)) % Curve.p
    IN  Power(peer_public_key, private_key)
\* private_key.public_key()
public_key_of(private_key) == exchange(private_key, Curve.g)

\* public_key.public_bytes(DER, SubjectPublicKeyInfo)
public_bytes(public_key) == <<48, public_key>>

\* b"USER:" + username.encode() + b"|PUB:" + pub_der
SignedContent(username, pub_der) ==
    <<85, 83, 69, 82, 58>> \o username \o <<124, 80, 85, 66, 58>> \o pub_der

\* CertificateAuthority.sign_user_pubkey: (r, s) = decode_dss_signature(signature)
sign_user_pubkey(ca_private_key, username, public_key) ==
    LET pub_bytes == public_bytes(public_key)
        signature == [signer |-> ca_private_key,
                      content |-> SignedContent(username, pub_bytes)]
    IN  [username |-> username, pub_der |-> pub_bytes,
         sig_r |-> [half |-> "r", of |-> signature],
         sig_s |-> [half |-> "s", of |-> signature]]

\* CertificateAuthority.verify_cert: signature = encode_dss_signature(r, s);
\* public_key.verify raises InvalidSignature, which is caught
verify_cert(ca_public_key, cert) ==
    /\ cert.sig_r.of = cert.sig_s.of
    /\ public_key_of(cert.sig_r.of.signer) = ca_public_key
    /\ cert.sig_r.of.content = SignedContent(cert.username, cert.pub_der)

\* SimulatedUser.__post_init__, with the private key generate_private_key drew
SimulatedUser(name, ca_private_key, private_key) ==
    [name |-> name, private_key |-> private_key,
     public_key |-> public_key_of(private_key),
     certificate |-> sign_user_pubkey(ca_private_key, name, public_key_of(private_key))]

\* a check of the CA signature alone, without the comparison of the key bytes
verify_signature_only(ca_public_key, user) ==
    IF ~verify_cert(ca_public_key, user.certificate)
    THEN Raise("Invalid CA signature on user public key")
    ELSE Ok(0)
\* verify_signed_public_key(ca, user): the AssertionError it raises, if any
verify_signed_public_key(ca_public_key, user) ==
    IF ~verify_cert(ca_public_key, user.certificate)
    THEN Raise("Invalid CA signature on user public key")
    ELSE IF public_bytes(user.public_key) # user.certificate.pub_der
    THEN Raise("Certificate does not match user's public key")
    ELSE Ok(0)

\* the two keys in the order the caller has them
caller_order(self_pub, peer_pub) == <<self_pub, peer_pub>>
\* sorted([self_pub, peer_pub]): bytes compare lexicographically
canonical_order(self_pub, peer_pub) ==
    LET RECURSIVE Less(_, _)
        Less(a, b) == IF b = <<>> THEN FALSE
                      ELSE IF a = <<>> THEN TRUE
                      ELSE IF Head(a) # Head(b) THEN Head(a) < Head(b)
                      ELSE Less(Tail(a), Tail(b))
    IN  IF Less(peer_pub, self_pub) THEN <<peer_pub, self_pub>> ELSE <<self_pub, peer_pub>>

\* derive_symmetric_key(private_key, peer_public_key, context): (key, debug)
tower_derive_symmetric_key(private_key, peer_public_key, context) ==
    LET shared_secret == exchange(private_key, peer_public_key)
        self_pub == public_bytes(public_key_of(private_key))
        peer_pub == public_bytes(peer_public_key)
        p == canonical_order(self_pub, peer_pub)
        info == <<67, 84, 88, 58>> \o context \o <<124, 80, 49, 58>> \o p[1]
                    \o <<124, 80, 50, 58>> \o p[2]
    IN  <<[ckdf |-> shared_secret, otherinfo |-> info],
          [shared_secret_hash_hex |-> [sha256 |-> shared_secret]]>>

\* aes_cbc_encrypt(key, plaintext) with the iv os.urandom returned: PKCS7
\* padding, then CBC
aes_cbc_encrypt(key, iv, plaintext) ==
    LET pad == BabelBlockSize - (Len(plaintext) % BabelBlockSize)
        padded == plaintext \o [k \in 1..pad |-> pad]
        RECURSIVE Cell(_)
        Cell(i) == IF i = 0 THEN [iv |-> iv]
                   ELSE [k |-> key, prev |-> Cell(i - 1),
                         p |-> SubSeq(padded, (i - 1) * BabelBlockSize + 1, i * BabelBlockSize)]
        cells == [i \in 1..(Len(padded) \div BabelBlockSize) |-> Cell(i)]
    IN  <<iv, [n \in 1..Len(padded) |->
                 [cell |-> cells[((n - 1) \div BabelBlockSize) + 1],
                  j |-> ((n - 1) % BabelBlockSize) + 1]]>>

\* aes_cbc_decrypt(key, iv, ciphertext).  A block decrypts to its plaintext
\* block under the key it was made with when the block before it (the iv for
\* the first) is the one it was chained to; anything else decrypts to
\* arbitrary bytes, which the unpadder rejects unless they happen to end in
\* valid padding (garbage_unpads).
aes_cbc_decrypt(key, iv, ciphertext, garbage_unpads) ==
    IF Len(ciphertext) % BabelBlockSize # 0 \/ ciphertext = <<>>
    THEN Raise("ValueError: Invalid padding bytes.")
    ELSE LET blocks == split_blocks(ciphertext)
             Whole(b) == \A j \in 1..BabelBlockSize : b[j] = [cell |-> b[1].cell, j |-> j]
             Chained(i) == IF i = 1 THEN blocks[i][1].cell.prev = [iv |-> iv]
                           ELSE /\ Whole(blocks[i - 1])
                                /\ blocks[i][1].cell.prev = blocks[i - 1][1].cell
             Restored(i) == Whole(blocks[i]) /\ blocks[i][1].cell.k = key /\ Chained(i)
             padded == join_blocks([i \in 1..Len(blocks) |-> blocks[i][1].cell.p])
             pad == padded[Len(padded)]
         IN  IF \E i \in 1..Len(blocks) : ~Restored(i)
             THEN IF garbage_unpads THEN Ok(<<255>>)
                  ELSE Raise("ValueError: Invalid padding bytes.")
             ELSE IF pad \in 1..BabelBlockSize
                     /\ \A k \in (Len(padded) - pad + 1)..Len(padded) : padded[k] = pad
             THEN Ok(SubSeq(padded, 1, Len(padded) - pad))
             ELSE Raise("ValueError: Invalid padding bytes.")

-----------------------------------------------------------------------------
(* Tower of Babel web application (towerofbabel2/app.py)                   *)

\* the keys of USERS: "Alice", "Bob", "Carol"
USER_NAMES == {<<65, 108, 105, 99, 101>>, <<66, 111, 98>>, <<67, 97, 114, 111, 108>>}

\* message.encode("utf-8"), for code points below 0x800
encode_utf8(text) ==
    LET RECURSIVE Enc(_)
        Enc(t) == IF t = <<>> THEN <<>>
                  ELSE (IF Head(t) < 128 THEN <<Head(t)>>
                        ELSE <<192 + (Head(t) \div 64), 128 + (Head(t) % 64)>>) \o Enc(Tail(t))
    IN  Enc(text)

\* bytes.decode("utf-8", errors="replace"): what is no one- or two-byte
\* sequence becomes U+FFFD
decode_utf8_replace(data) ==
    LET RECURSIVE Dec(_)
        Dec(b) == IF b = <<>> THEN <<>>
                  ELSE IF Head(b) < 128 THEN <<Head(b)>> \o Dec(Tail(b))
                  ELSE IF /\ Head(b) \in 194..223 /\ Len(b) >= 2 /\ b[2] \in 128..191
                  THEN <<(Head(b) - 192) * 64 + (b[2] - 128)>> \o Dec(Tail(Tail(b)))
                  ELSE <<65533>> \o Dec(Tail(b))
    IN  Dec(data)

\* perform_ecdh_and_encrypt(sender, recipient, message): the display it
\* returns or the exception it raises.  iv is what os.urandom returns, digest
\* the order of the SHA-256 scores of the block indices under (key, iv).
\* key_derived is history: derive_symmetric_key was called before the end.
perform_ecdh_and_encrypt(ca_public_key, sender, recipient, message, iv, digest, garbage_unpads) ==
    LET checked_s == verify_signed_public_key(ca_public_key, sender)
        checked_r == verify_signed_public_key(ca_public_key, recipient)
        context == sender.name \o <<45, 62>> \o recipient.name
        derived == tower_derive_symmetric_key(sender.private_key, recipient.public_key, context)
        encrypted == aes_cbc_encrypt(derived[1], iv, encode_utf8(message))
        obfuscated == obfuscate_ciphertext_blocks(digest, encrypted[2])
        shared_key_r ==
            tower_derive_symmetric_key(recipient.private_key, sender.public_key, context)[1]
        restored_ct == deobfuscate_ciphertext_blocks(digest, obfuscated[1], obfuscated[2])
        decrypted == aes_cbc_decrypt(shared_key_r, encrypted[1], restored_ct, garbage_unpads)
        Ended(outcome, key_derived) ==
            [ok |-> outcome.ok, v |-> outcome.v, err |-> outcome.err,
             key_derived |-> key_derived]
    IN  IF ~checked_s.ok THEN Ended(checked_s, FALSE)
        ELSE IF ~checked_r.ok THEN Ended(checked_r, FALSE)
        ELSE IF ~decrypted.ok THEN Ended(decrypted, TRUE)
        ELSE Ended(Ok([sender |-> sender.name,
                 recipient |-> recipient.name,
                 sender_pub |-> [pem |-> sender.public_key],
                 recipient_pub |-> [pem |-> recipient.public_key],
                 ca_pub |-> [pem |-> ca_public_key],
                 shared_secret_hash_hex |-> derived[2].shared_secret_hash_hex,
                 context |-> context,
                 iv_b64 |-> [b64 |-> encrypted[1]],
                 ciphertext_b64 |-> [b64 |-> encrypted[2]],
                 permuted_ciphertext_b64 |-> [b64 |-> obfuscated[1]],
                 permutation |-> obfuscated[2],
                 decrypted_plaintext |-> decode_utf8_replace(decrypted.v)]), TRUE)

\* a validation that looks at the message only
validation_error_message_only(users, message, sender, recipient) ==
    IF message = <<>> THEN Some("Please enter a message to encrypt.") ELSE None
\* the two validation branches of index
validation_error(users, message, sender, recipient) ==
    IF message = <<>> THEN Some("Please enter a message to encrypt.")
    ELSE IF sender \notin DOMAIN users \/ recipient \notin DOMAIN users
    THEN Some("Invalid sender or recipient.")
    ELSE None

\* index(): what it hands to render_template, and whether it called
\* perform_ecdh_and_encrypt
index(ca_public_key, users, request, iv, digest, garbage_unpads) ==
    LET posted == request.method = "POST"
        message == IF posted /\ ~IsNone(request.form.message)
                   THEN Val(request.form.message) ELSE <<>>
        sender == IF posted /\ ~IsNone(request.form.sender)
                  THEN Val(request.form.sender) ELSE <<65, 108, 105, 99, 101>>
        recipient == IF posted /\ ~IsNone(request.form.recipient)
                     THEN Val(request.form.recipient) ELSE <<66, 111, 98>>
        invalid == validation_error(users, message, sender, recipient)
        known == sender \in DOMAIN users /\ recipient \in DOMAIN users
        performed == perform_ecdh_and_encrypt(ca_public_key, users[sender], users[recipient],
                                              message, iv, digest, garbage_unpads)
        page == [result |-> None, error |-> None, message |-> message,
                 selected_sender |-> sender, selected_recipient |-> recipient,
                 perform_called |-> FALSE, key_derived |-> FALSE]
    IN  IF ~posted THEN page
        ELSE IF ~IsNone(invalid) THEN [page EXCEPT !.error = invalid]
        \* USERS[sender] raises KeyError inside the try
        ELSE IF ~known THEN [page EXCEPT !.error = Some("Error: KeyError")]
        ELSE IF performed.ok
        THEN [page EXCEPT !.result = Some(performed.v), !.perform_called = TRUE,
                          !.key_derived = performed.key_derived]
        ELSE [page EXCEPT !.error = Some("Error: " \o performed.err),
                          !.perform_called = TRUE,
                          !.key_derived = performed.key_derived]

\* the requests to '/': a GET, and POSTs whose form may lack a field; the
\* messages are "", "hi", "e-acute !", sixteen and thirty-two letters; the
\* names are those of USERS and "Mallory"
TowerRequests ==
    LET Texts == {<<>>, <<104, 105>>, <<233, 33>>, [k \in 1..16 |-> 97], [k \in 1..32 |-> 98]}
        Names == USER_NAMES \cup {<<77, 97, 108, 108, 111, 114, 121>>}
        Optional(S) == {None} \cup {Some(v) : v \in S}
    IN  {[method |-> "GET", form |-> [message |-> None, sender |-> None, recipient |-> None]]}
        \cup {[method |-> "POST", form |-> [message |-> m, sender |-> s, recipient |-> r]] :
                 m \in Optional(Texts), s \in Optional(Names), r \in Optional(Names)}

\* the private keys generate_private_key may draw
PrivateKeys == {2, 3}
CAPrivateKeys == {4, 9}

\* the certificates a caller may present to verify_cert after cert was
\* issued: cert itself, cert with other key bytes, with another username, and
\* with the username cut at a "|PUB:" it contains and the rest moved in front
\* of the key bytes
PresentedCertificates(cert) ==
    {cert,
     [cert EXCEPT !.pub_der = public_bytes(public_key_of(5))],
     [cert EXCEPT !.pub_der = cert.pub_der \o <<0>>],
     [cert EXCEPT !.username = <<67, 97, 114, 111, 108>>]}
    \cup {[cert EXCEPT !.username = SubSeq(cert.username, 1, k - 1),
                       !.pub_der = SubSeq(cert.username, k + 5, Len(cert.username))
                                       \o <<124, 80, 85, 66, 58>> \o cert.pub_der] :
             k \in {i \in 1..(Len(cert.username) - 4) :
                       SubSeq(cert.username, i, i + 4) = <<124, 80, 85, 66, 58>>}}

\* a SimulatedUser whose attributes were reassigned after construction: the
\* key bytes or the username in its certificate, the whole certificate (one
\* signed by another authority), or its key pair (the certificate kept)
TamperKinds == {"none", "pub_der", "username", "other CA", "new key pair"}
Tampered(user, kind, other_ca_private_key) ==
    CASE kind = "none" -> user
      [] kind = "pub_der" ->
           [user EXCEPT !.certificate.pub_der = public_bytes(public_key_of(5))]
      [] kind = "username" ->
           [user EXCEPT !.certificate.username = <<67, 97, 114, 111, 108>>]
      [] kind = "other CA" ->
           [user EXCEPT !.certificate =
                sign_user_pubkey(other_ca_private_key, user.name, user.public_key)]
      [] kind = "new key pair" ->
           [user EXCEPT !.private_key = 5, !.public_key = public_key_of(5)]

\* module start: CA = CertificateAuthority(), USERS = {name: SimulatedUser(name, CA)},
\* and a request about to be handled; or a CertificateAuthority about to sign
\* the key of a user "Alice", "Bob" or "Bob|PUB:x", whose certificate is then
\* presented to a CertificateAuthority (the same or another one); or USERS
\* with Alice and Bob possibly reassigned, and a POST of "hi" between two users
InitTower ==
    \E ca \in CAPrivateKeys :
        LET start == [pending |-> "index", ca_private_key |-> ca, users |-> <<>>,
                      registry |-> <<>>,
                      request |-> [method |-> "GET",
                                   form |-> [message |-> None, sender |-> None,
                                             recipient |-> None]],
                      page |-> None, subject |-> None, verifier |-> ca, presented |-> None,
                      verdict |-> "none"]
        IN  \/ \E keys \in [USER_NAMES -> PrivateKeys], request \in TowerRequests :
                  LET users == [n \in USER_NAMES |-> SimulatedUser(n, ca, keys[n])]
                  IN  tower = [start EXCEPT
                                 !.users = users,
                                 !.registry = [n \in USER_NAMES |-> users[n].certificate],
                                 !.request = request]
            \/ \E username \in {<<65, 108, 105, 99, 101>>, <<66, 111, 98>>,
                                <<66, 111, 98, 124, 80, 85, 66, 58, 120>>},
                  private_key \in PrivateKeys, verifier \in CAPrivateKeys :
                  tower = [start EXCEPT
                             !.pending = "sign_user_pubkey", !.verifier = verifier,
                             !.subject = Some([username |-> username,
                                               private_key |-> private_key])]
            \/ \E alice_key \in PrivateKeys, other_ca \in CAPrivateKeys \ {ca},
                  tamper \in [{<<65, 108, 105, 99, 101>>, <<66, 111, 98>>} -> TamperKinds],
                  sender \in USER_NAMES, recipient \in USER_NAMES :
                  LET made == [n \in USER_NAMES |->
                                 SimulatedUser(n, ca, IF n = <<65, 108, 105, 99, 101>>
                                                      THEN alice_key ELSE 3)]
                      users == [n \in USER_NAMES |->
                                  IF n \in DOMAIN tamper
                                  THEN Tampered(made[n], tamper[n], other_ca)
                                  ELSE made[n]]
                  IN  tower = [start EXCEPT
                                 !.users = users,
                                 !.registry = [n \in USER_NAMES |-> made[n].certificate],
                                 !.request = [method |-> "POST",
                                              form |-> [message |-> Some(<<104, 105>>),
                                                        sender |-> Some(sender),
                                                        recipient |-> Some(recipient)]]]

\* one request to '/': the iv is random, the SHA-256 scores of distinct block
\* indices differ and come in any order
Index ==
    /\ tower.pending = "index"
    /\ \E iv \in {[k \in 1..BabelBlockSize |-> 0], [k \in 1..BabelBlockSize |-> k]},
          garbage_unpads \in BOOLEAN :
          LET n == IF IsNone(tower.request.form.message) THEN 1
                   ELSE (Len(encode_utf8(Val(tower.request.form.message))) \div BabelBlockSize) + 1
          IN  \E digest \in {d \in [0..(n - 1) -> 0..(n - 1)] :
                                  \A i, j \in 0..(n - 1) : d[i] = d[j] => i = j} :
                  tower' = [tower EXCEPT
                              !.pending = "returned index",
                              !.page = Some(index(public_key_of(tower.ca_private_key),
                                                  tower.users, tower.request,
                                                  iv, digest, garbage_unpads))]
    /\ UNCHANGED otherThanTower

\* CA.sign_user_pubkey(username, public_key): returns the certificate and
\* keeps it in the registry
SignUserPubkey ==
    /\ tower.pending = "sign_user_pubkey"
    /\ LET cert == sign_user_pubkey(tower.ca_private_key, Val(tower.subject).username,
                                    public_key_of(Val(tower.subject).private_key))
       IN  tower' = [tower EXCEPT !.pending = "verify_cert",
                                  !.registry = (cert.username :> cert)]
    /\ UNCHANGED otherThanTower

\* verifier.verify_cert(cert) on a certificate made from the issued one
VerifyCert ==
    /\ tower.pending = "verify_cert"
    /\ \E issued \in {tower.registry[u] : u \in DOMAIN tower.registry} :
          \E cert \in PresentedCertificates(issued) :
              tower' = [tower EXCEPT
                          !.pending = "returned verify_cert",
                          !.presented = Some(cert),
                          !.verdict = IF verify_cert(public_key_of(tower.verifier), cert)
                                      THEN "True" ELSE "False"]
    /\ UNCHANGED otherThanTower

NextTower ==
    \/ Index
    \/ SignUserPubkey
    \/ VerifyCert

\* Claims about the Tower of Babel application

Handled == tower.pending = "returned index"
Rendered == Val(tower.page)

\* C15: for every two users X and Y (X = Y included) and every context, the
\* key X derives from its private key and Y's public key is the key Y derives
\* from its private key and X's public key.
C15_KeySymmetry ==
    Handled =>
        \A X \in DOMAIN tower.users, Y \in DOMAIN tower.users :
            \A context \in {<<>>, X \o <<45, 62>> \o Y, Y \o <<45, 62>> \o X} :
                tower_derive_symmetric_key(tower.users[X].private_key,
                                           tower.users[Y].public_key, context)[1]
                  = tower_derive_symmetric_key(tower.users[Y].private_key,
                                               tower.users[X].public_key, context)[1]

\* C15 witness: a message from Alice to Bob was processed, their key pairs
\* differ, and Alice's public key bytes sort after Bob's
C15_SenderKeySortsLast ==
    /\ Handled
    /\ ~IsNone(Rendered.result)
    /\ Val(Rendered.result).sender = <<65, 108, 105, 99, 101>>
    /\ Val(Rendered.result).recipient = <<66, 111, 98>>
    /\ Val(Rendered.result).sender_pub.pem > Val(Rendered.result).recipient_pub.pem

\* C16: whenever a request ends with a result, its decrypted_plaintext is the
\* submitted message: the recipient-side key is the sender-side key,
\* de-obfuscating the permuted ciphertext returns the AES-CBC ciphertext, and
\* decrypting that with the same iv returns the message bytes.
C16_EndToEndConvergence ==
    (Handled /\ ~IsNone(Rendered.result)) =>
        LET display == Val(Rendered.result)
            sender == tower.users[display.sender]
            recipient == tower.users[display.recipient]
            shared_key_r == tower_derive_symmetric_key(recipient.private_key,
                                                       sender.public_key, display.context)[1]
        IN  /\ display.decrypted_plaintext = Val(tower.request.form.message)
            /\ display.decrypted_plaintext # <<>>
            /\ shared_key_r = tower_derive_symmetric_key(sender.private_key,
                                                         recipient.public_key,
                                                         display.context)[1]
            /\ deobfuscate_ciphertext_blocks(inverse_permutation(display.permutation),
                                             display.permuted_ciphertext_b64.b64,
                                             display.permutation)
                 = display.ciphertext_b64.b64
            /\ \A garbage_unpads \in BOOLEAN :
                  aes_cbc_decrypt(shared_key_r, display.iv_b64.b64,
                                  display.ciphertext_b64.b64, garbage_unpads)
                    = Ok(encode_utf8(Val(tower.request.form.message)))

\* C16 witness: Carol sends herself a message of three blocks, the blocks are
\* permuted by a 3-cycle, and the page shows the message
C16_ThreeBlocksToSelf ==
    /\ Handled
    /\ ~IsNone(Rendered.result)
    /\ Val(Rendered.result).sender = <<67, 97, 114, 111, 108>>
    /\ Val(Rendered.result).recipient = <<67, 97, 114, 111, 108>>
    /\ Val(Rendered.result).permutation = <<1, 2, 0>>
    /\ Val(Rendered.result).decrypted_plaintext = [k \in 1..32 |-> 98]

\* C17: a page never carries both a result and an error; a POST with an empty
\* message or with a sender or recipient outside USERS gets the matching
\* error, no result, and perform_ecdh_and_encrypt is not called; a POST whose
\* processing raises gets "Error: <message>" and no result; a GET gets neither.
C17_WebValidation ==
    Handled =>
        LET form == tower.request.form
            posted == tower.request.method = "POST"
            message == IF IsNone(form.message) THEN <<>> ELSE Val(form.message)
            sender == IF IsNone(form.sender) THEN <<65, 108, 105, 99, 101>> ELSE Val(form.sender)
            recipient == IF IsNone(form.recipient) THEN <<66, 111, 98>> ELSE Val(form.recipient)
        IN  /\ IsNone(Rendered.result) \/ IsNone(Rendered.error)
            /\ ~posted => IsNone(Rendered.result) /\ IsNone(Rendered.error)
            /\ (posted /\ message = <<>>) =>
                  /\ Rendered.error = Some("Please enter a message to encrypt.")
                  /\ IsNone(Rendered.result) /\ ~Rendered.perform_called
            /\ (posted /\ message # <<>>
                  /\ (sender \notin USER_NAMES \/ recipient \notin USER_NAMES)) =>
                  /\ Rendered.error = Some("Invalid sender or recipient.")
                  /\ IsNone(Rendered.result) /\ ~Rendered.perform_called
            /\ (posted /\ message # <<>> /\ sender \in USER_NAMES /\ recipient \in USER_NAMES) =>
                  /\ Rendered.perform_called
                  /\ IsNone(Rendered.result) =>
                        \E text \in {"Invalid CA signature on user public key",
                                     "Certificate does not match user's public key",
                                     "ValueError: Invalid padding bytes."} :
                            Rendered.error = Some("Error: " \o text)

\* C17 witness: a POST with a message and the sender "Mallory" is answered
\* with the error about the names and no result
C17_UnknownSenderRefused ==
    /\ Handled
    /\ tower.request.form.message = Some(<<104, 105>>)
    /\ tower.request.form.sender = Some(<<77, 97, 108, 108, 111, 114, 121>>)
    /\ tower.request.form.recipient = Some(<<66, 111, 98>>)
    /\ Rendered.error = Some("Invalid sender or recipient.")
    /\ IsNone(Rendered.result)

\* the gate refuses user: its certificate fails CA verification, or the key
\* bytes in it are not those of the user's present public key
FailsCertificateGate(user) ==
    \/ ~verify_cert(public_key_of(tower.ca_private_key), user.certificate)
    \/ user.certificate.pub_der # public_bytes(user.public_key)
GateMessage(user) ==
    IF ~verify_cert(public_key_of(tower.ca_private_key), user.certificate)
    THEN "Invalid CA signature on user public key"
    ELSE "Certificate does not match user's public key"

\* C26: when perform_ecdh_and_encrypt is called and the sender or the
\* recipient fails the certificate gate, the call ends with the assertion
\* message of the first failing check (sender before recipient) before any
\* key is derived, and the page carries that error and no result.
C26_CertificateGate ==
    (Handled /\ Rendered.perform_called) =>
        LET sender == tower.users[Rendered.selected_sender]
            recipient == tower.users[Rendered.selected_recipient]
        IN  (FailsCertificateGate(sender) \/ FailsCertificateGate(recipient)) =>
                /\ IsNone(Rendered.result)
                /\ ~Rendered.key_derived
                /\ Rendered.error =
                      Some("Error: " \o (IF FailsCertificateGate(sender)
                                         THEN GateMessage(sender)
                                         ELSE GateMessage(recipient)))

\* C26 witness: Alice, whose key pair was replaced, sends to Bob, whose
\* certificate another authority signed; the page shows Alice's failure
C26_SenderFailureShownFirst ==
    /\ Handled /\ Rendered.perform_called
    /\ Rendered.selected_sender = <<65, 108, 105, 99, 101>>
    /\ Rendered.selected_recipient = <<66, 111, 98>>
    /\ tower.users[<<65, 108, 105, 99, 101>>].certificate.pub_der
          # public_bytes(tower.users[<<65, 108, 105, 99, 101>>].public_key)
    /\ ~verify_cert(public_key_of(tower.ca_private_key),
                    tower.users[<<66, 111, 98>>].certificate)
    /\ Rendered.error = Some("Error: Certificate does not match user's public key")
    /\ IsNone(Rendered.result) /\ ~Rendered.key_derived

\* C18 (as claimed): verify_cert returns true for an unmodified certificate of
\* the same CA, and false for a certificate whose pub_der or username was
\* altered after it was issued and for a certificate of another CA.
C18_CertificateIntegrityClaimed ==
    tower.pending = "returned verify_cert" =>
        LET issued == tower.registry[Val(tower.subject).username]
            cert == Val(tower.presented)
        IN  /\ (cert = issued /\ tower.verifier = tower.ca_private_key) =>
                  tower.verdict = "True"
            /\ (cert.pub_der # issued.pub_der \/ cert.username # issued.username) =>
                  tower.verdict = "False"
            /\ tower.verifier # tower.ca_private_key => tower.verdict = "False"

-----------------------------------------------------------------------------
(* SecureQR: POST /decrypt (SecureQR (1OX22CS077,1OX22CS119)/app.py).      *)
(* secureqr holds the two uploads of one request and the answer.  An       *)
(* upload is None (the form field is absent) or a FileStorage with a file  *)
(* name and a content; RSA-OAEP is symbolic: a ciphertext names the key    *)
(* pair it was made for and the plaintext bytes.                           *)

FileStorage(filename, content) == [filename |-> filename, content |-> content]
\* FileStorage.__bool__: bool(self.filename)
Uploaded(file) == ~IsNone(file) /\ Val(file).filename # ""

\* public_key.encrypt(message, OAEP) under key pair k; bytes that are no
\* ciphertext of any key pair
OaepEncrypt(k, message) == [oaep |-> k, plaintext |-> message]
RawBytes(bytes) == [oaep |-> 0, plaintext |-> bytes]
\* a str: its characters, or the hex digits of a ciphertext (ciphertext.hex())
Text(chars) == [chars |-> chars, hexof |-> None]
HexOf(ciphertext) == [chars |-> <<48>>, hexof |-> Some(ciphertext)]

\* bytes.fromhex on a text of an even number of hex digits (two digits give
\* one byte); any other text raises ValueError
HexDigit(c) ==
    IF c >= 48 /\ c <= 57 THEN c - 48
    ELSE IF c >= 97 /\ c <= 102 THEN c - 87
    ELSE IF c >= 65 /\ c <= 70 THEN c - 55
    ELSE -1
fromhex(data) ==
    IF ~IsNone(data.hexof) THEN Ok(Val(data.hexof))
    ELSE IF Len(data.chars) % 2 # 0 \/ \E i \in 1..Len(data.chars) : HexDigit(data.chars[i]) < 0
    THEN Raise("ValueError: non-hexadecimal number found in fromhex()")
    ELSE Ok(RawBytes([i \in 1..(Len(data.chars) \div 2) |->
                16 * HexDigit(data.chars[2 * i - 1]) + HexDigit(data.chars[2 * i])]))

\* load_pem_private_key(key_bytes, password=None)
load_pem_private_key(key_bytes) ==
    IF "pem" \in DOMAIN key_bytes THEN Ok(key_bytes.pem)
    ELSE Raise("ValueError: Could not deserialize key data")

\* private.decrypt(ciphertext, OAEP): an elliptic-curve key has no decrypt,
\* an RSA key opens what was encrypted to it
private_decrypt(private, ciphertext) ==
    IF private.type # "rsa" THEN Raise("AttributeError: no attribute 'decrypt'")
    ELSE IF ciphertext.oaep = private.k
    THEN Ok(ciphertext.plaintext)
    ELSE Raise("ValueError: Decryption failed")

\* plaintext.decode('utf-8') for bytes below 0x80 and the invalid byte 0xff
decode_utf8(plaintext) ==
    IF \E i \in 1..Len(plaintext) : plaintext[i] >= 128
    THEN Raise("UnicodeDecodeError")
    ELSE Ok(plaintext)

\* cv2.imdecode(np.frombuffer(content)): an assertion fails on an empty
\* buffer, None comes back for bytes that are no image
imdecode(content) ==
    IF content.kind = "empty" THEN Raise("cv2.error: !buf.empty()")
    ELSE IF content.kind = "image" THEN Ok(Some(content))
    ELSE Ok(None)
\* cv2.QRCodeDetector().detectAndDecode(img): data is "" when no code is
\* found; an assertion fails on an empty (None) image
detectAndDecode(img) ==
    IF IsNone(img) THEN Raise("cv2.error: !img.empty()")
    ELSE IF IsNone(Val(img).qr) THEN Ok(Text(<<>>))
    ELSE Ok(Val(Val(img).qr))

\* the three answers of the view: flash + redirect, the result page, or an
\* exception that leaves the view (Flask answers 500)
FlashAndRedirect(text) == [kind |-> "redirect", flash |-> text, message |-> <<>>]
RenderResult(message) == [kind |-> "render", flash |-> "", message |-> message]
UnhandledException(err) == [kind |-> "exception", flash |-> err, message |-> <<>>]

\* decrypt(), lines 69-106
secureqr_decrypt(qr_file, key_file) ==
    IF ~Uploaded(qr_file) \/ ~Uploaded(key_file)
    THEN FlashAndRedirect("Please upload both a QR image and the private key file (.pem).")
    ELSE
    LET private == load_pem_private_key(Val(key_file).content)
        img == imdecode(Val(qr_file).content)
        data == detectAndDecode(img.v)
        ciphertext == fromhex(data.v)
        plaintext == private_decrypt(private.v, ciphertext.v)
        message == decode_utf8(plaintext.v)
    IN  IF ~private.ok THEN FlashAndRedirect("Failed to load private key")
        ELSE IF ~img.ok THEN UnhandledException(img.err)
        ELSE IF ~data.ok THEN UnhandledException(data.err)
        ELSE IF data.v = Text(<<>>)
        THEN FlashAndRedirect("No QR code detected in the uploaded image.")
        ELSE IF ~ciphertext.ok \/ ~plaintext.ok \/ ~message.ok
        THEN FlashAndRedirect("Decryption failed")
        ELSE RenderResult(message.v)

\* what a client uploads as key file: the PEM of an RSA key pair (1 is the
\* pair the server generated at start-up), the PEM of an elliptic-curve key,
\* or bytes that are no PEM
KeyContents ==
    {[pem |-> [type |-> "rsa", k |-> 1]], [pem |-> [type |-> "rsa", k |-> 2]],
     [pem |-> [type |-> "ec", k |-> 3]], [raw |-> <<120>>]}
\* what a client uploads as image: no bytes, bytes that are no image, an
\* image without a code, and images of a code whose text is the hex of a
\* ciphertext for pair 1 or 2 ("hi", or the bytes ff that are no UTF-8), or
\* "zz", "0" or "00"
QrContents ==
    {[kind |-> "empty", qr |-> None], [kind |-> "not an image", qr |-> None],
     [kind |-> "image", qr |-> None]}
    \cup {[kind |-> "image", qr |-> Some(HexOf(OaepEncrypt(k, m)))] :
             k \in {1, 2}, m \in {<<104, 105>>, <<255>>}}
    \cup {[kind |-> "image", qr |-> Some(Text(t))] : t \in {<<122, 122>>, <<48>>, <<48, 48>>}}
Uploads(contents) ==
    {None} \cup {Some(FileStorage(f, c)) : f \in {"", "upload"}, c \in contents}

NoAnswer == [kind |-> "none", flash |-> "", message |-> <<>>]

InitSecureQR ==
    \E qr_file \in Uploads(QrContents), key_file \in Uploads(KeyContents) :
        secureqr = [qr_file |-> qr_file, key_file |-> key_file, response |-> NoAnswer]

\* @app.route('/decrypt', methods=['POST'])
DecryptUpload ==
    /\ secureqr.response = NoAnswer
    /\ secureqr' = [secureqr EXCEPT
                      !.response = secureqr_decrypt(secureqr.qr_file, secureqr.key_file)]
    /\ UNCHANGED otherThanSecureQR

NextSecureQR ==
    \/ DecryptUpload

\* Claims about SecureQR

\* the conditions of the result page: both files uploaded, the key loaded, a
\* payload decoded, the payload is hex, OAEP opened it, the bytes are UTF-8
AllDecryptStepsSucceed ==
    /\ Uploaded(secureqr.qr_file) /\ Uploaded(secureqr.key_file)
    /\ "pem" \in DOMAIN Val(secureqr.key_file).content
    /\ ~IsNone(Val(secureqr.qr_file).content.qr)
    /\ LET payload == Val(Val(secureqr.qr_file).content.qr)
           key == Val(secureqr.key_file).content.pem
       IN  /\ ~IsNone(payload.hexof)
           /\ key.type = "rsa" /\ Val(payload.hexof).oaep = key.k
           /\ \A i \in 1..Len(Val(payload.hexof).plaintext) :
                  Val(payload.hexof).plaintext[i] < 128

\* C23 (as claimed): every POST /decrypt ends as a flash-and-redirect or as
\* the result page, never as an unhandled exception, and the result page is
\* produced only when every step of the decryption succeeded.
C23_DecryptOutcomesClaimed ==
    (secureqr # <<>> /\ secureqr.response # NoAnswer) =>
        /\ secureqr.response.kind \in {"redirect", "render"}
        /\ secureqr.response.kind = "render" => AllDecryptStepsSucceed

-----------------------------------------------------------------------------
(* PHCSecurityUtils.calculate_index_of_coincidence                         *)
(* (phc_security_utils.py, lines 118-139).  ic holds the text passed and   *)
(* the float returned, kept as the exact fraction num / den.               *)

\* Bound: the longest text passed
MaxTextLen == 3

\* str.upper(): a lower-case ASCII letter becomes its capital; the German
\* sharp s (223) becomes "SS" and j with caron (496) becomes J followed by a
\* combining caron (780): the result can be longer than the text
RECURSIVE str_upper(_)
str_upper(text) ==
    IF text = <<>> THEN <<>>
    ELSE (IF Head(text) = 223 THEN <<83, 83>>
          ELSE IF Head(text) = 496 THEN <<74, 780>>
          ELSE <<Upper(Head(text))>>) \o str_upper(Tail(text))

\* str.replace(' ', '')
remove_spaces(text) == SelectSeq(text, LAMBDA c : c # 32)

\* Counter(text): character -> number of occurrences
Counter(text) ==
    [c \in {text[i] : i \in 1..Len(text)} |->
        Cardinality({i \in 1..Len(text) : text[i] = c})]

RECURSIVE SumOver(_, _)
SumOver(counter, chars) ==
    IF chars = {} THEN 0
    ELSE LET c == CHOOSE x \in chars : TRUE
         IN  counter[c] * (counter[c] - 1) + SumOver(counter, chars \ {c})

calculate_index_of_coincidence(text) ==
    LET upper == remove_spaces(str_upper(text))
        n == Len(upper)
        counter == Counter(upper)
    IN  IF n <= 1 THEN [num |-> 0, den |-> 1]
        ELSE [num |-> SumOver(counter, DOMAIN counter), den |-> n * (n - 1)]

\* the texts passed: A, a, B, space, sharp s and j with caron
ICTexts == SeqsUpTo({65, 97, 66, 32, 223, 496}, MaxTextLen)

InitIC == \E text \in ICTexts : ic = [text |-> text, result |-> None]

CalculateIndexOfCoincidence ==
    /\ IsNone(ic.result)
    /\ ic' = [ic EXCEPT !.result = Some(calculate_index_of_coincidence(ic.text))]
    /\ UNCHANGED otherThanIC

NextIC ==
    \/ CalculateIndexOfCoincidence

\* Claims about the index of coincidence

ICReturned == ic # <<>> /\ ~IsNone(ic.result)

\* C24 (as claimed): the function returns 1.0 for a text made of one letter
\* repeated two or more times, 0.0 for a text of at most one character once
\* its spaces are removed, and a value in [0, 1] for every text.
C24_IndexOfCoincidenceClaimed ==
    ICReturned =>
        LET r == Val(ic.result)
            N == Len(remove_spaces(ic.text))
        IN  /\ (Len(ic.text) >= 2 /\ ic.text[1] # 32
                /\ \A i \in 1..Len(ic.text) : ic.text[i] = ic.text[1]) => r.num = r.den
            /\ N <= 1 => r.num = 0
            /\ 0 <= r.num /\ r.num <= r.den

-----------------------------------------------------------------------------
(* Specifications                                                          *)

IdlePHC ==
    /\ polynomial_coeffs = None /\ hill_matrix = None /\ hill_matrix_inv = None
    /\ poly_lookup = None /\ inverse_lookup = None
    /\ phc_text = <<>> /\ phc_call = NoCall /\ phc_enc = None
    /\ phc_key_calls = [ok |-> FALSE, last |-> "none"]
IdleWizards ==
    /\ files = <<>> /\ dialog = "closed"
    /\ reg = RegistrationWizard /\ login = LoginWizard
IdleStego == user_db = <<>> /\ IdleWizards
IdleStore == proc = <<>>

IdleDH == dh_request = <<>> /\ dh_response = NotAnswered

IdleHybrid == hybrid = <<>>

IdleBabel == babel = <<>>

IdleCrack == crack = <<>>

IdleTower == tower = <<>>

IdleSecureQR == secureqr = <<>>

IdleIC == ic = <<>>

\* each specification starts one program in its initial state and leaves the
\* others idle
StartPHC ==
    InitPHC /\ IdleStego /\ IdleStore /\ IdleDH /\ IdleHybrid /\ IdleBabel /\ IdleCrack /\ IdleTower /\ IdleSecureQR /\ IdleIC
SpecPHC == StartPHC /\ [][NextPHC]_vars

SpecAvalanche == StartPHC /\ [][NextAvalanche]_vars

StartStego ==
    InitStego /\ IdlePHC /\ IdleStore /\ IdleDH /\ IdleHybrid /\ IdleBabel /\ IdleCrack /\ IdleTower /\ IdleSecureQR /\ IdleIC
SpecStego == StartStego /\ [][NextStego]_vars

StartStore ==
    InitStore /\ IdlePHC /\ IdleWizards /\ IdleDH /\ IdleHybrid /\ IdleBabel /\ IdleCrack /\ IdleTower /\ IdleSecureQR /\ IdleIC
SpecStore == StartStore /\ [][NextStore]_vars

StartDH ==
    InitDH /\ IdlePHC /\ IdleStego /\ IdleStore /\ IdleHybrid /\ IdleBabel /\ IdleCrack /\ IdleTower /\ IdleSecureQR /\ IdleIC
SpecDH == StartDH /\ [][NextDH]_vars

StartHybrid ==
    InitHybrid /\ IdlePHC /\ IdleStego /\ IdleStore /\ IdleDH /\ IdleBabel /\ IdleCrack /\ IdleTower /\ IdleSecureQR /\ IdleIC
SpecHybrid == StartHybrid /\ [][NextHybrid]_vars

StartBabel ==
    InitBabel /\ IdlePHC /\ IdleStego /\ IdleStore /\ IdleDH /\ IdleHybrid /\ IdleCrack /\ IdleTower /\ IdleSecureQR /\ IdleIC
SpecBabel == StartBabel /\ [][NextBabel]_vars

StartLater ==
    InitLater /\ IdlePHC /\ IdleStego /\ IdleStore /\ IdleDH /\ IdleHybrid /\ IdleCrack /\ IdleTower /\ IdleSecureQR /\ IdleIC
SpecLater == StartLater /\ [][NextLater]_vars

StartCrack ==
    InitCrack /\ IdlePHC /\ IdleStego /\ IdleStore /\ IdleDH /\ IdleHybrid /\ IdleBabel /\ IdleTower /\ IdleSecureQR /\ IdleIC
SpecCrack == StartCrack /\ [][NextCrack]_vars

StartTower ==
    InitTower /\ IdlePHC /\ IdleStego /\ IdleStore /\ IdleDH /\ IdleHybrid /\ IdleBabel /\ IdleCrack /\ IdleSecureQR /\ IdleIC
SpecTower == StartTower /\ [][NextTower]_vars

StartSecureQR ==
    InitSecureQR /\ IdlePHC /\ IdleStego /\ IdleStore /\ IdleDH /\ IdleHybrid /\ IdleBabel /\ IdleCrack /\ IdleTower /\ IdleIC
SpecSecureQR == StartSecureQR /\ [][NextSecureQR]_vars

StartIC ==
    InitIC /\ IdlePHC /\ IdleStego /\ IdleStore /\ IdleDH /\ IdleHybrid /\ IdleBabel /\ IdleCrack /\ IdleTower /\ IdleSecureQR
SpecIC == StartIC /\ [][NextIC]_vars

=============================================================================
